---- MODULE Spec2Model ----
(***************************************************************************)
(* Model of the k8s-pods-ingress / k8s-router reconciliation engine:       *)
(* the pod cache and its event fold (ingress/pods.go), the secret cache    *)
(* and its event fold (ingress/secrets.go), the nginx configuration        *)
(* compiler (nginx/config.go) and the control loop (main.go).              *)
(*                                                                         *)
(* Go strings that the code takes apart (annotation values, hosts, paths,  *)
(* ports, IPs) are sequences of one-character strings; Go strings that the *)
(* code only compares (names, namespaces, phases, label values) are TLA+   *)
(* strings.  Go maps are functions whose DOMAIN is the set of keys.        *)
(***************************************************************************)
EXTENDS Integers, Sequences, FiniteSets, TLC

(***************************************************************************)
(* Strings                                                                 *)
(***************************************************************************)

Digits == {"0", "1", "2", "3", "4", "5", "6", "7", "8", "9"}

Letters == {"a", "b", "c", "x", "y", "A", "F"}

\* strconv.Atoi, one decimal digit
DigitVal(c) ==
  CASE c = "0" -> 0 [] c = "1" -> 1 [] c = "2" -> 2 [] c = "3" -> 3
    [] c = "4" -> 4 [] c = "5" -> 5 [] c = "6" -> 6 [] c = "7" -> 7
    [] c = "8" -> 8 [] c = "9" -> 9

\* the byte value of a character (ASCII), for hash/fnv
CharCode(c) ==
  CASE c \in Digits -> 48 + DigitVal(c)
    [] c = "a" -> 97 [] c = "b" -> 98 [] c = "c" -> 99
    [] c = "x" -> 120 [] c = "y" -> 121 [] c = "A" -> 65 [] c = "F" -> 70
    [] c = " " -> 32 [] c = "%" -> 37 [] c = "+" -> 43 [] c = "-" -> 45
    [] c = "." -> 46 [] c = "/" -> 47 [] c = ":" -> 58 [] c = "_" -> 95
    [] c = "k" -> 107 [] c = "p" -> 112 [] c = "q" -> 113

\* strings.Split(s, sep) for a one-character separator: the pieces between the
\* separators, in order; Split("") is one empty piece.
RECURSIVE SplitFrom(_, _, _, _)
SplitFrom(s, sep, i, cur) ==
  IF i > Len(s) THEN <<cur>>
  ELSE IF s[i] = sep THEN <<cur>> \o SplitFrom(s, sep, i + 1, <<>>)
  ELSE SplitFrom(s, sep, i + 1, Append(cur, s[i]))

Split(s, sep) == SplitFrom(s, sep, 1, <<>>)

\* strconv.Atoi: an optional sign and one or more decimal digits; the result is
\* [ok, val], val = 0 when the text is not a number (Go returns 0 and an error).
RECURSIVE DigitsVal(_, _)
DigitsVal(s, acc) ==
  IF s = <<>> THEN acc ELSE DigitsVal(Tail(s), acc * 10 + DigitVal(Head(s)))

Atoi(s) ==
  LET signed == s # <<>> /\ Head(s) \in {"+", "-"}
      body   == IF signed THEN Tail(s) ELSE s
      isNum  == body # <<>> /\ \A i \in 1..Len(body) : body[i] \in Digits
      mag    == IF isNum THEN DigitsVal(body, 0) ELSE 0
  IN [ok  |-> isNum,
      val |-> IF signed /\ Head(s) = "-" THEN 0 - mag ELSE mag]

(***************************************************************************)
(* Validation (utils/validation.go, ingress/pods.go)                       *)
(***************************************************************************)

\* IsValidPort with 0 taken for a port
IsValidPortFromZero(port) == port >= 0 /\ port < 65536

\* utils.IsValidPort
IsValidPort(port) == port > 0 /\ port < 65536

IsAlnum(c) == c \in Digits \cup Letters

\* one dot-separated label of hostnameRegexStr:
\*   [a-zA-Z0-9] | [a-zA-Z0-9][a-zA-Z0-9\-]*[a-zA-Z0-9]
HostLabelOK(l) ==
  /\ l # <<>>
  /\ IsAlnum(l[1])
  /\ IsAlnum(l[Len(l)])
  /\ \A i \in 1..Len(l) : IsAlnum(l[i]) \/ l[i] = "-"

\* hostnameRegex.MatchString: ^(label\.)*label$
hostnameRegex(s) ==
  LET ls == Split(s, ".") IN \A i \in 1..Len(ls) : HostLabelOK(ls[i])

\* one octet of ipRegexStr: [0-9]|[1-9][0-9]|1[0-9]{2}|2[0-4][0-9]|25[0-5]
OctetOK(o) ==
  /\ Len(o) \in 1..3
  /\ \A i \in 1..Len(o) : o[i] \in Digits
  /\ Len(o) > 1 => o[1] # "0"
  /\ DigitsVal(o, 0) <= 255

\* ipRegex.MatchString: ^(octet\.){3}octet$
ipRegex(s) ==
  LET os == Split(s, ".") IN Len(os) = 4 /\ \A i \in 1..4 : OctetOK(os[i])

PathChars == Digits \cup Letters \cup {"-", ".", "_", "+", ":"}

IsHex(c) == c \in Digits \cup {"a", "b", "c", "A", "F"}

\* pathSegmentRegex.MatchString for "^[A-Za-z0-9\-._~!$&'()*+,;=:@]|%[0-9A-Fa-f]{2}$":
\* the alternation binds loosest, so a segment matches when it STARTS with one
\* segment character or when it ENDS with a percent-encoded byte.
pathSegmentRegex(seg) ==
  \/ seg # <<>> /\ seg[1] \in PathChars
  \/ /\ Len(seg) >= 3
     /\ seg[Len(seg) - 2] = "%"
     /\ IsHex(seg[Len(seg) - 1])
     /\ IsHex(seg[Len(seg)])

(***************************************************************************)
(* Go maps and slices                                                      *)
(***************************************************************************)

\* m[k] of a Go map with string values: the zero value "" for a missing key
MapGet(m, k) == IF k \in DOMAIN m THEN m[k] ELSE <<>>

\* delete(m, k)
MapDelete(m, k) == [x \in DOMAIN m \ {k} |-> m[x]]

\* m[k] = v
MapPut(m, k, v) == [x \in DOMAIN m \cup {k} |-> IF x = k THEN v ELSE m[x]]

EmptyMap == [x \in {} |-> <<>>]

\* append(...) of every element of every slice of ss, in order
RECURSIVE FlattenSeq(_)
FlattenSeq(ss) ==
  IF ss = <<>> THEN <<>> ELSE Head(ss) \o FlattenSeq(Tail(ss))

(***************************************************************************)
(* Route extraction (ingress/pods.go)                                      *)
(***************************************************************************)

KeyMicroserviceL == "microservice"
KeyPublicPathsA == "publicPaths"
KeyTrafficHostsA == "trafficHosts"

\* ValidHosts with the loop left at the first token that is not valid
RECURSIVE ValidHostsUntilInvalidFrom(_)
ValidHostsUntilInvalidFrom(tokens) ==
  IF tokens = <<>> THEN <<>>
  ELSE IF hostnameRegex(Head(tokens)) \/ ipRegex(Head(tokens))
    THEN << Head(tokens) >> \o ValidHostsUntilInvalidFrom(Tail(tokens))
  ELSE <<>>

ValidHostsUntilInvalid(annotation) ==
  ValidHostsUntilInvalidFrom(Split(annotation, " "))

\* the hosts of the trafficHosts annotation that are a valid hostname or IP
ValidHosts(annotation) ==
  SelectSeq(Split(annotation, " "), LAMBDA h : hostnameRegex(h) \/ ipRegex(h))

\* the validation of one path of a PORT:PATH token; nParts is len(pathParts),
\* which the loop uses where the number of segments was meant
PathValid(path, nParts) ==
  LET pathSegments == Split(path, "/")
  IN \A i \in 1..Len(pathSegments) :
       \/ (i - 1 = 0 \/ i - 1 = nParts - 1) /\ pathSegments[i] = <<>>
       \/ pathSegmentRegex(pathSegments[i])

\* one token of the publicPaths annotation: the pathPair it yields, as a
\* sequence of zero or one pairs
PathPairOf(publicPath) ==
  LET pathParts == Split(publicPath, ":")
  IN IF Len(pathParts) # 2 THEN <<>>
     ELSE LET conv == Atoi(pathParts[1])
              port == conv.val
              Port == IF conv.ok /\ port > 0 /\ port < 65536
                        THEN pathParts[1] ELSE <<>>
              Path == IF port > 0 /\ PathValid(pathParts[2], Len(pathParts))
                        THEN pathParts[2] ELSE <<>>
          IN IF Path # <<>> /\ Port # <<>>
               THEN << [Path |-> Path, Port |-> Port] >>
               ELSE <<>>

PathPairs(annotation) ==
  LET tokens == Split(annotation, " ")
  IN FlattenSeq([i \in 1..Len(tokens) |-> PathPairOf(tokens[i])])

NewRoute(host, pair, ip) ==
  [Incoming |-> [Host |-> host, Path |-> pair.Path],
   Outgoing |-> [IP |-> ip, Port |-> pair.Port]]

\* GetRoutes with the i-th host paired with the i-th pathPair only, in place
\* of every host with every pathPair
GetRoutesPairwise(pod) ==
  IF pod.Phase # "Running" THEN <<>>
  ELSE IF KeyTrafficHostsA \notin DOMAIN pod.Annotations THEN <<>>
  ELSE LET hosts == ValidHosts(pod.Annotations[KeyTrafficHostsA])
           pathPairs ==
             IF Len(hosts) > 0 /\ KeyPublicPathsA \in DOMAIN pod.Annotations
               THEN PathPairs(pod.Annotations[KeyPublicPathsA])
               ELSE <<>>
           n == IF Len(hosts) < Len(pathPairs) THEN Len(hosts) ELSE Len(pathPairs)
       IN [i \in 1..n |-> NewRoute(hosts[i], pathPairs[i], pod.PodIP)]

\* GetRoutes with the pair (80, "/") for a pod without the publicPaths
\* annotation, in place of no pair
GetRoutesDefaultPair(pod) ==
  IF pod.Phase # "Running" THEN <<>>
  ELSE IF KeyTrafficHostsA \notin DOMAIN pod.Annotations THEN <<>>
  ELSE LET hosts == ValidHosts(pod.Annotations[KeyTrafficHostsA])
           pathPairs ==
             IF Len(hosts) = 0 THEN <<>>
             ELSE IF KeyPublicPathsA \in DOMAIN pod.Annotations
               THEN PathPairs(pod.Annotations[KeyPublicPathsA])
               ELSE << [Path |-> <<"/">>, Port |-> <<"8", "0">>] >>
       IN FlattenSeq([h \in 1..Len(hosts) |->
            [p \in 1..Len(pathPairs) |->
               NewRoute(hosts[h], pathPairs[p], pod.PodIP)]])

\* GetRoutes: the routes of a pod, host-major
GetRoutes(pod) ==
  IF pod.Phase # "Running" THEN <<>>
  ELSE IF KeyTrafficHostsA \notin DOMAIN pod.Annotations THEN <<>>
  ELSE LET hosts == ValidHosts(pod.Annotations[KeyTrafficHostsA])
           pathPairs ==
             IF Len(hosts) > 0 /\ KeyPublicPathsA \in DOMAIN pod.Annotations
               THEN PathPairs(pod.Annotations[KeyPublicPathsA])
               ELSE <<>>
       IN FlattenSeq([h \in 1..Len(hosts) |->
            [p \in 1..Len(pathPairs) |->
               NewRoute(hosts[h], pathPairs[p], pod.PodIP)]])

(***************************************************************************)
(* Pod cache (ingress/pods.go)                                             *)
(***************************************************************************)

\* &PodWithRoutes{Pod: pod, Routes: GetRoutes(pod)}
NewPodWithRoutes(pod) == [Pod |-> pod, Routes |-> GetRoutes(pod)]

\* the condition under which a Modified event of a cached pod asks for a restart
AnnotationsChanged(pod, cached) ==
  \/ MapGet(pod.Annotations, KeyMicroserviceL)
       # MapGet(cached.Pod.Annotations, KeyMicroserviceL)
  \/ MapGet(pod.Annotations, KeyTrafficHostsA)
       # MapGet(cached.Pod.Annotations, KeyTrafficHostsA)
  \/ MapGet(pod.Annotations, KeyPublicPathsA)
       # MapGet(cached.Pod.Annotations, KeyPublicPathsA)

\* IsMicroservice with the value of the label not looked at
IsMicroserviceAnyValue(pod) == KeyMicroserviceL \in DOMAIN pod.Labels

\* whether the pod still has the microservice label set to "true"
IsMicroservice(pod) ==
  KeyMicroserviceL \in DOMAIN pod.Labels /\ pod.Labels[KeyMicroserviceL] = "true"

\* The cases of the switch of UpdatePodCacheForEvents.  st is
\* [cache, needsRestart, panicked].
PodAdded(st, pod) ==
  [st EXCEPT !.needsRestart = TRUE,
             !.cache = MapPut(st.cache, pod.Name, NewPodWithRoutes(pod))]

PodDeleted(st, pod) ==
  [st EXCEPT !.needsRestart = TRUE,
             !.cache = MapDelete(st.cache, pod.Name)]

\* whether a Modified event of a pod that is still a microservice asks for a
\* restart: there is no cache entry, or an annotation of interest changed
ModifiedNeedsRestart(cache, pod) ==
  \/ pod.Name \notin DOMAIN cache
  \/ AnnotationsChanged(pod, cache[pod.Name])

\* Writing through cache[pod.Name] when the map has no such key dereferences
\* a nil *PodWithRoutes: the call panics instead of returning.
PodModified(st, pod) ==
  IF ~IsMicroservice(pod)
    THEN [st EXCEPT !.needsRestart = TRUE,
                    !.cache = MapDelete(st.cache, pod.Name)]
    ELSE LET restart == st.needsRestart \/ ModifiedNeedsRestart(st.cache, pod)
         IN IF pod.Name \in DOMAIN st.cache
              THEN [st EXCEPT !.needsRestart = restart,
                              !.cache = MapPut(st.cache, pod.Name,
                                               NewPodWithRoutes(pod))]
              ELSE [st EXCEPT !.needsRestart = restart, !.panicked = TRUE]

\* one iteration of the loop of UpdatePodCacheForEvents
PodEventStep(st, event) ==
  CASE event.Type = "ADDED" -> PodAdded(st, event.Object)
    [] event.Type = "DELETED" -> PodDeleted(st, event.Object)
    [] event.Type = "MODIFIED" -> PodModified(st, event.Object)

RECURSIVE PodEventLoop(_, _)
PodEventLoop(st, events) ==
  IF events = <<>> \/ st.panicked THEN st
  ELSE PodEventLoop(PodEventStep(st, Head(events)), Tail(events))

\* UpdatePodCacheForEvents(cache, events): the cache after the events, the
\* returned needsRestart, and whether the call panicked instead of returning
UpdatePodCacheForEvents(cache, events) ==
  PodEventLoop([cache |-> cache, needsRestart |-> FALSE, panicked |-> FALSE],
               events)

(***************************************************************************)
(* Secret cache (ingress/secrets.go)                                       *)
(***************************************************************************)

APIKeySecret == "routing"
APIKeySecretDataField == "api-key"

\* secret.Data[field] of a map[string][]byte: nil for a missing key
DataGet(data, k) ==
  IF k \in DOMAIN data THEN [isNil |-> FALSE, bytes |-> data[k]]
  ELSE [isNil |-> TRUE, bytes |-> <<>>]

\* the three-way comparison of the Modified case
APIKeyChanged(apiKey, cachedAPIKey) ==
  IF (apiKey.isNil /\ ~cachedAPIKey.isNil) \/ (~apiKey.isNil /\ cachedAPIKey.isNil)
    THEN TRUE
  ELSE IF ~apiKey.isNil /\ ~cachedAPIKey.isNil
          /\ Len(apiKey.bytes) # Len(cachedAPIKey.bytes)
    THEN TRUE
  ELSE \E i \in 1..Len(apiKey.bytes) : apiKey.bytes[i] # cachedAPIKey.bytes[i]

\* The cases of the switch of UpdateSecretCacheForEvents; st is
\* [cache, needsRestart].
SecretAdded(st, secret) ==
  [cache |-> MapPut(st.cache, secret.Namespace, secret), needsRestart |-> TRUE]

\* SecretDeleted without asking for the restart
SecretDeletedQuietly(st, secret) ==
  [cache |-> MapDelete(st.cache, secret.Namespace), needsRestart |-> st.needsRestart]

SecretDeleted(st, secret) ==
  [cache |-> MapDelete(st.cache, secret.Namespace), needsRestart |-> TRUE]

\* whether a Modified event asks for a restart: only a cached secret is compared
SecretModifiedNeedsRestart(cache, secret) ==
  /\ secret.Namespace \in DOMAIN cache
  /\ APIKeyChanged(DataGet(secret.Data, APIKeySecretDataField),
                   DataGet(cache[secret.Namespace].Data, APIKeySecretDataField))

SecretModified(st, secret) ==
  [cache |-> MapPut(st.cache, secret.Namespace, secret),
   needsRestart |-> st.needsRestart \/ SecretModifiedNeedsRestart(st.cache, secret)]

\* one iteration of the loop of UpdateSecretCacheForEvents
SecretEventStep(st, event) ==
  CASE event.Type = "ADDED" -> SecretAdded(st, event.Object)
    [] event.Type = "DELETED" -> SecretDeleted(st, event.Object)
    [] event.Type = "MODIFIED" -> SecretModified(st, event.Object)

RECURSIVE SecretEventLoop(_, _)
SecretEventLoop(st, events) ==
  IF events = <<>> THEN st
  ELSE SecretEventLoop(SecretEventStep(st, Head(events)), Tail(events))

\* UpdateSecretCacheForEvents(config, cache, events)
UpdateSecretCacheForEvents(cache, events) ==
  SecretEventLoop([cache |-> cache, needsRestart |-> FALSE], events)

(***************************************************************************)
(* Encoding and hashing used by the configuration compiler                 *)
(***************************************************************************)

\* the alphabet of base64.StdEncoding
encodeStd ==
  << "A", "B", "C", "D", "E", "F", "G", "H", "I", "J", "K", "L", "M",
     "N", "O", "P", "Q", "R", "S", "T", "U", "V", "W", "X", "Y", "Z",
     "a", "b", "c", "d", "e", "f", "g", "h", "i", "j", "k", "l", "m",
     "n", "o", "p", "q", "r", "s", "t", "u", "v", "w", "x", "y", "z",
     "0", "1", "2", "3", "4", "5", "6", "7", "8", "9", "+", "/" >>

\* base64.StdEncoding.EncodeToString: three bytes to four characters, the
\* last group padded with "="
RECURSIVE EncodeToString(_)
EncodeToString(src) ==
  LET b(i) == CharCode(src[i])
      e(n) == encodeStd[n + 1]
  IN CASE Len(src) = 0 -> <<>>
       [] Len(src) = 1 ->
            << e(b(1) \div 4), e((b(1) % 4) * 16), "=", "=" >>
       [] Len(src) = 2 ->
            << e(b(1) \div 4), e((b(1) % 4) * 16 + (b(2) \div 16)),
               e((b(2) % 16) * 4), "=" >>
       [] OTHER ->
            << e(b(1) \div 4), e((b(1) % 4) * 16 + (b(2) \div 16)),
               e((b(2) % 16) * 4 + (b(3) \div 64)), e(b(3) % 64) >>
              \o EncodeToString(SubSeq(src, 4, Len(src)))

\* exclusive or of two bytes
RECURSIVE Xor8(_, _, _)
Xor8(a, b, bits) ==
  IF bits = 0 THEN 0
  ELSE (IF a % 2 = b % 2 THEN 0 ELSE 1) + 2 * Xor8(a \div 2, b \div 2, bits - 1)

\* One step of FNV-1a on a uint32 kept as two 16-bit halves [hi, lo]:
\* h = (h XOR byte) * 16777619 mod 2^32, where 16777619 = 256 * 2^16 + 403
FnvStep(h, byte) ==
  LET lo == (h.lo - (h.lo % 256)) + Xor8(h.lo % 256, byte, 8)
      t  == lo * 403
  IN [lo |-> t % 65536,
      hi |-> (h.hi * 403 + lo * 256 + (t \div 65536)) % 65536]

RECURSIVE FnvLoop(_, _)
FnvLoop(h, s) ==
  IF s = <<>> THEN h ELSE FnvLoop(FnvStep(h, CharCode(Head(s))), Tail(s))

\* hash(s): fnv.New32a over the bytes of s; the offset basis 2166136261 is
\* 33052 * 2^16 + 40389
hash(s) == FnvLoop([hi |-> 33052, lo |-> 40389], s)

DigitChar(d) == encodeStd[53 + d]

\* fmt.Sprint of a uint32 kept as [hi, lo]: its decimal digits
RECURSIVE Sprint(_)
Sprint(h) ==
  LET qhi  == h.hi \div 10
      rest == (h.hi % 10) * 65536 + h.lo
      q    == [hi |-> qhi, lo |-> rest \div 10]
  IN IF q.hi = 0 /\ q.lo = 0 THEN << DigitChar(rest % 10) >>
     ELSE Append(Sprint(q), DigitChar(rest % 10))

(***************************************************************************)
(* Configuration from the environment (router/config.go)                   *)
(***************************************************************************)

DefaultAPIKeyHeader ==
  <<"X", "-", "R", "O", "U", "T", "I", "N", "G", "-", "A", "P", "I", "-",
    "K", "E", "Y">>
DefaultAPIKeySecret == <<"r", "o", "u", "t", "i", "n", "g">>
DefaultAPIKeySecretDataField == <<"a", "p", "i", "-", "k", "e", "y">>
DefaultHostsAnnotation ==
  <<"r", "o", "u", "t", "i", "n", "g", "H", "o", "s", "t", "s">>
DefaultPathsAnnotation ==
  <<"r", "o", "u", "t", "i", "n", "g", "P", "a", "t", "h", "s">>
DefaultRoutableLabelSelector ==
  <<"r", "o", "u", "t", "a", "b", "l", "e", "=", "t", "r", "u", "e">>

\* the listen port of the default configuration (router.DefaultPort)
Port == 80

EnvVarAPIKeyHeader == "API_KEY_HEADER"
EnvVarAPIKeySecretLocation == "API_KEY_SECRET_LOCATION"
EnvVarHostsAnnotation == "HOSTS_ANNOTATION"
EnvVarPathsAnnotation == "PATHS_ANNOTATION"
EnvVarPort == "PORT"
EnvVarRoutableLabelSelector == "ROUTABLE_LABEL_SELECTOR"

EnvVars ==
  { EnvVarAPIKeyHeader, EnvVarAPIKeySecretLocation, EnvVarHostsAnnotation,
    EnvVarPathsAnnotation, EnvVarPort, EnvVarRoutableLabelSelector }

\* an environment in which none of the variables is set: os.Getenv gives ""
NoEnv == [v \in EnvVars |-> <<>>]

UpperCase ==
  <<"A", "B", "C", "D", "E", "F", "G", "H", "I", "J", "K", "L", "M",
    "N", "O", "P", "Q", "R", "S", "T", "U", "V", "W", "X", "Y", "Z">>
LowerCase ==
  <<"a", "b", "c", "d", "e", "f", "g", "h", "i", "j", "k", "l", "m",
    "n", "o", "p", "q", "r", "s", "t", "u", "v", "w", "x", "y", "z">>

IsLower(c) == \E i \in 1..26 : LowerCase[i] = c
IsUpper(c) == \E i \in 1..26 : UpperCase[i] = c

\* strings.ToLower
ToLower(s) ==
  [i \in 1..Len(s) |->
     IF IsUpper(s[i]) THEN LowerCase[CHOOSE k \in 1..26 : UpperCase[k] = s[i]]
     ELSE s[i]]

\* one label of a DNS-1123 subdomain: [a-z0-9]([-a-z0-9]*[a-z0-9])?
DNS1123LabelOK(l) ==
  /\ l # <<>>
  /\ IsLower(l[1]) \/ l[1] \in Digits
  /\ IsLower(l[Len(l)]) \/ l[Len(l)] \in Digits
  /\ \A i \in 1..Len(l) : IsLower(l[i]) \/ l[i] \in Digits \/ l[i] = "-"

\* validation.IsDNS1123Subdomain, no error
IsDNS1123Subdomain(s) ==
  LET ls == Split(s, ".")
  IN Len(s) <= 253 /\ \A i \in 1..Len(ls) : DNS1123LabelOK(ls[i])

\* the name part of a qualified name and a label value that is not empty:
\* ([A-Za-z0-9][-A-Za-z0-9_.]*)?[A-Za-z0-9], at most 63 characters
QualifiedNamePartOK(n) ==
  LET alnum(c) == IsLower(c) \/ IsUpper(c) \/ c \in Digits
  IN /\ n # <<>>
     /\ Len(n) <= 63
     /\ alnum(n[1])
     /\ alnum(n[Len(n)])
     /\ \A i \in 1..Len(n) : alnum(n[i]) \/ n[i] \in {"-", "_", "."}

\* len(validation.IsQualifiedName(value)) == 0: an optional DNS subdomain
\* prefix and "/", then the name part
IsQualifiedName(value) ==
  LET parts == Split(value, "/")
  IN CASE Len(parts) = 1 -> QualifiedNamePartOK(parts[1])
       [] Len(parts) = 2 -> /\ parts[1] # <<>>
                            /\ IsDNS1123Subdomain(parts[1])
                            /\ QualifiedNamePartOK(parts[2])
       [] OTHER -> FALSE

\* the position of the first "=" or "!" of a requirement, 0 without one
RECURSIVE FirstOperator(_, _)
FirstOperator(s, i) ==
  IF i > Len(s) THEN 0
  ELSE IF s[i] \in {"=", "!"} THEN i
  ELSE FirstOperator(s, i + 1)

\* one requirement of a label selector: key, !key, key=value, key==value or
\* key!=value (the set-based forms of labels.Parse are left out)
RequirementOK(r) ==
  LET o == FirstOperator(r, 1)
      key == SubSeq(r, 1, o - 1)
      rest == SubSeq(r, o, Len(r))
      value == IF Len(rest) >= 2 /\ rest[2] = "="
                 THEN SubSeq(rest, 3, Len(rest))
                 ELSE SubSeq(rest, 2, Len(rest))
  IN IF o = 0 THEN IsQualifiedName(r)
     ELSE IF o = 1 THEN r[1] = "!" /\ IsQualifiedName(Tail(r))
     ELSE /\ IsQualifiedName(key)
          /\ rest[1] = "!" => (Len(rest) >= 2 /\ rest[2] = "=")
          /\ value = <<>> \/ QualifiedNamePartOK(value)

\* labels.Parse(selector), err == nil
ParseOK(selector) ==
  LET rs == Split(selector, ",")
  IN \A i \in 1..Len(rs) : RequirementOK(rs[i])

\* the nil *Config
NilConfig == [isNil |-> TRUE]

\* ConfigFromEnv: the configuration and the error it returns; err is "nil"
\* or the name of the message template of the error
ConfigFromEnv(env) ==
  LET orDefault(v, d) == IF env[v] = <<>> THEN d ELSE env[v]
      APIKeyHeader == orDefault(EnvVarAPIKeyHeader, DefaultAPIKeyHeader)
      HostsAnnotation == orDefault(EnvVarHostsAnnotation, DefaultHostsAnnotation)
      PathsAnnotation == orDefault(EnvVarPathsAnnotation, DefaultPathsAnnotation)
      apiKeySecretLocation == env[EnvVarAPIKeySecretLocation]
      apiKeySecretLocationParts == Split(apiKeySecretLocation, ":")
      portStr == env[EnvVarPort]
      conv == Atoi(portStr)
      routableLabelSelector ==
        orDefault(EnvVarRoutableLabelSelector, DefaultRoutableLabelSelector)
      fail(msg) == [config |-> NilConfig, err |-> msg]
  IN IF apiKeySecretLocation # <<>> /\ Len(apiKeySecretLocationParts) # 2
       THEN fail("ErrMsgTmplInvalidAPIKeySecretLocation")
     ELSE IF ~IsQualifiedName(ToLower(HostsAnnotation))
       THEN fail("ErrMsgTmplInvalidAnnotationName hosts")
     ELSE IF ~IsQualifiedName(ToLower(PathsAnnotation))
       THEN fail("ErrMsgTmplInvalidAnnotationName paths")
     ELSE IF portStr # <<>> /\ (~conv.ok \/ ~IsValidPort(conv.val))
       THEN fail("ErrMsgTmplInvalidPort")
     ELSE IF ~ParseOK(routableLabelSelector)
       THEN fail("ErrMsgTmplInvalidLabelSelector")
     ELSE [config |->
             [isNil |-> FALSE,
              APIKeyHeader |-> APIKeyHeader,
              APIKeySecret |->
                IF apiKeySecretLocation = <<>> THEN DefaultAPIKeySecret
                ELSE apiKeySecretLocationParts[1],
              APIKeySecretDataField |->
                IF apiKeySecretLocation = <<>> THEN DefaultAPIKeySecretDataField
                ELSE apiKeySecretLocationParts[2],
              HostsAnnotation |-> HostsAnnotation,
              PathsAnnotation |-> PathsAnnotation,
              Port |-> IF portStr = <<>> THEN Port ELSE conv.val,
              RoutableLabelSelector |-> routableLabelSelector],
           err |-> "nil"]

\* the router.Config of a controller started with none of the variables in
\* its environment
DefaultConfig == ConfigFromEnv(NoEnv).config

(***************************************************************************)
(* Configuration compiler (nginx/config.go)                                *)
(***************************************************************************)

\* Go's < on strings: bytewise lexicographic
RECURSIVE StrLess(_, _)
StrLess(a, b) ==
  IF b = <<>> THEN FALSE
  ELSE IF a = <<>> THEN TRUE
  ELSE IF Head(a) = Head(b) THEN StrLess(Tail(a), Tail(b))
  ELSE CharCode(Head(a)) < CharCode(Head(b))

\* serversT.Less
ServerLess(x, y) == StrLess(x.Pod.Name, y.Pod.Name)

\* sort.Sort on a short slice is an insertion sort: each element moves left
\* while it is less than its predecessor
RECURSIVE InsertServer(_, _)
InsertServer(sorted, x) ==
  IF sorted = <<>> THEN << x >>
  ELSE LET last == sorted[Len(sorted)]
       IN IF ServerLess(x, last)
            THEN Append(InsertServer(SubSeq(sorted, 1, Len(sorted) - 1), x), last)
            ELSE Append(sorted, x)

RECURSIVE SortServers(_)
SortServers(servers) ==
  IF servers = <<>> THEN <<>>
  ELSE InsertServer(SortServers(SubSeq(servers, 1, Len(servers) - 1)),
                    servers[Len(servers)])

NilPod == [Name |-> <<>>, Namespace |-> ""]

\* &serverT{Pod: cacheEntry, Target: target}
PodServer(cacheEntry, target) ==
  [IsUpstream |-> FALSE,
   Pod |-> [Name |-> cacheEntry.Pod.Name, Namespace |-> cacheEntry.Pod.Namespace],
   Target |-> target]

\* &serverT{IsUpstream: true, Target: upstreamName}
UpstreamServer(upstreamName) ==
  [IsUpstream |-> TRUE, Pod |-> NilPod, Target |-> upstreamName]

\* "upstream" + fmt.Sprint(hash(upstreamKey))
UpstreamName(upstreamKey) ==
  <<"u", "p", "s", "t", "r", "e", "a", "m">> \o Sprint(hash(upstreamKey))

\* the proxy target of a route: the port is left out when it is 80 or 443
TargetOf(route) ==
  IF route.Outgoing.Port # <<"8", "0">> /\ route.Outgoing.Port # <<"4", "4", "3">>
    THEN route.Outgoing.IP \o <<":">> \o route.Outgoing.Port
    ELSE route.Outgoing.IP

\* LocationSecret with the bytes of the API key written as they are
LocationSecretUnencoded(secrets, namespace) ==
  IF namespace \in DOMAIN secrets
    THEN DataGet(secrets[namespace].Data, APIKeySecretDataField).bytes
    ELSE <<>>

\* LocationSecret with the namespace not looked at: the key of some cached secret
LocationSecretOfAnyNamespace(secrets, namespace) ==
  IF DOMAIN secrets # {}
    THEN EncodeToString(DataGet(secrets[CHOOSE n \in DOMAIN secrets : TRUE].Data,
                                APIKeySecretDataField).bytes)
    ELSE <<>>

\* the base64 API key of the secret cached for the namespace, "" without one
LocationSecret(secrets, namespace) ==
  IF namespace \in DOMAIN secrets
    THEN EncodeToString(DataGet(secrets[namespace].Data, APIKeySecretDataField).bytes)
    ELSE <<>>

\* The body of the inner loop of GetConf for one route of one cache entry.
\* tmplData is [Hosts, Upstreams, Port].
ProcessRoute(tmplData, secrets, cacheEntry, route) ==
  LET hostKey == route.Incoming.Host
      path == route.Incoming.Path
      host0 == IF hostKey \in DOMAIN tmplData.Hosts
                 THEN tmplData.Hosts[hostKey]
                 ELSE [Locations |-> EmptyMap, NeedsDefaultLocation |-> TRUE]
      namespace == cacheEntry.Pod.Namespace
      locationSecret == LocationSecret(secrets, namespace)
      ok == path \in DOMAIN host0.Locations
      upstreamKey == hostKey \o path
      upstreamName == UpstreamName(upstreamKey)
      target == TargetOf(route)
      needsDefault == host0.NeedsDefaultLocation /\ path # <<"/">>
      hasUpstream == upstreamKey \in DOMAIN tmplData.Upstreams
      newServer == PodServer(cacheEntry, target)
      upstreams ==
        IF ok /\ host0.Locations[path].Server.Target # target
          THEN IF hasUpstream
                 THEN LET upstream == tmplData.Upstreams[upstreamKey]
                          known == \E i \in 1..Len(upstream.Servers) :
                                     upstream.Servers[i].Target = target
                      IN IF known THEN tmplData.Upstreams
                         ELSE MapPut(tmplData.Upstreams, upstreamKey,
                                [upstream EXCEPT !.Servers =
                                   SortServers(Append(upstream.Servers, newServer))])
                 ELSE MapPut(tmplData.Upstreams, upstreamKey,
                        [Name |-> upstreamName,
                         Host |-> hostKey,
                         Path |-> path,
                         Servers |-> << host0.Locations[path].Server, newServer >>])
          ELSE tmplData.Upstreams
      locations ==
        IF ok
          THEN IF host0.Locations[path].Server.Target # target
                 THEN MapPut(host0.Locations, path,
                        [host0.Locations[path] EXCEPT
                           !.Server = UpstreamServer(upstreamName)])
                 ELSE host0.Locations
          ELSE MapPut(host0.Locations, path,
                 [Namespace |-> namespace,
                  Path |-> path,
                  Secret |-> locationSecret,
                  Server |-> newServer])
  IN [Hosts |-> MapPut(tmplData.Hosts, hostKey,
                  [Locations |-> locations, NeedsDefaultLocation |-> needsDefault]),
      Upstreams |-> upstreams,
      Port |-> tmplData.Port]

RECURSIVE ProcessRoutes(_, _, _, _)
ProcessRoutes(tmplData, secrets, cacheEntry, routes) ==
  IF routes = <<>> THEN tmplData
  ELSE ProcessRoutes(ProcessRoute(tmplData, secrets, cacheEntry, Head(routes)),
                     secrets, cacheEntry, Tail(routes))

\* the outer loop of GetConf, visiting the entries of cache.Pods in the order
\* the map iteration delivers them
RECURSIVE ProcessPods(_, _, _)
ProcessPods(tmplData, cache, order) ==
  IF order = <<>> THEN tmplData
  ELSE ProcessPods(
         ProcessRoutes(tmplData, cache.Secrets, cache.Pods[Head(order)],
                       cache.Pods[Head(order)].Routes),
         cache, Tail(order))

\* SecretsAfterLookup with the zero value stored under a missing key
SecretsAfterStoringLookup(secrets, namespace) ==
  IF namespace \in DOMAIN secrets THEN secrets
  ELSE MapPut(secrets, namespace, [Name |-> "", Namespace |-> "", Data |-> EmptyMap])

\* secret, ok := cache.Secrets[namespace]: the index expression reads the
\* map, which is the same afterwards, also when the key is missing
SecretsAfterLookup(secrets, namespace) == secrets

\* cache.Secrets after the lookups of the inner loop for one cache entry
RECURSIVE SecretsAfterRoutes(_, _, _)
SecretsAfterRoutes(secrets, cacheEntry, routes) ==
  IF routes = <<>> THEN secrets
  ELSE SecretsAfterRoutes(SecretsAfterLookup(secrets, cacheEntry.Pod.Namespace),
                          cacheEntry, Tail(routes))

\* cache.Secrets after the outer loop has visited the entries in the order
RECURSIVE SecretsAfterPods(_, _, _)
SecretsAfterPods(secrets, cachePods, order) ==
  IF order = <<>> THEN secrets
  ELSE SecretsAfterPods(
         SecretsAfterRoutes(secrets, cachePods[Head(order)],
                            cachePods[Head(order)].Routes),
         cachePods, Tail(order))

\* the cache a call of GetConf leaves behind: the entries of cache.Pods are
\* only read (Routes, Namespace, and the pointer kept in a serverT), and
\* cache.Secrets is only indexed
CacheAfterGetConf(cache, order) ==
  IF Cardinality(DOMAIN cache.Pods) = 0 THEN cache
  ELSE [Pods |-> cache.Pods,
        Secrets |-> SecretsAfterPods(cache.Secrets, cache.Pods, order)]

\* the keys of a map in the order text/template ranges over them
RECURSIVE SortedKeys(_)
SortedKeys(keys) ==
  IF keys = {} THEN <<>>
  ELSE LET least == CHOOSE k \in keys : \A o \in keys \ {k} : StrLess(k, o)
       IN << least >> \o SortedKeys(keys \ {least})

\* nginxConfTmpl: what the template writes, in the order it writes it.  The
\* namespace of a location is written only inside the API key check, the pod
\* of a server only when the location does not proxy to an upstream.
RenderLocation(path, location) ==
  [Path |-> path,
   Secret |-> location.Secret,
   Namespace |-> IF location.Secret # <<>> THEN location.Namespace ELSE "",
   IsUpstream |-> location.Server.IsUpstream,
   Pod |-> IF location.Server.IsUpstream THEN NilPod ELSE location.Server.Pod,
   Target |-> location.Server.Target]

\* RenderServer with the default location in every server block
RenderServerAlwaysDefault(port, hostKey, host) ==
  LET paths == SortedKeys(DOMAIN host.Locations)
  IN [ServerName |-> hostKey,
      Listen |-> port,
      NeedsDefaultLocation |-> TRUE,
      Locations |-> [i \in 1..Len(paths) |->
                       RenderLocation(paths[i], host.Locations[paths[i]])]]

RenderServer(port, hostKey, host) ==
  LET paths == SortedKeys(DOMAIN host.Locations)
  IN [ServerName |-> hostKey,
      Listen |-> port,
      NeedsDefaultLocation |-> host.NeedsDefaultLocation,
      Locations |-> [i \in 1..Len(paths) |->
                       RenderLocation(paths[i], host.Locations[paths[i]])]]

\* RenderUpstream with the first member of the block left out
RenderUpstreamWithoutFirst(upstream) ==
  [Path |-> upstream.Path,
   Host |-> upstream.Host,
   Name |-> upstream.Name,
   Servers |-> [i \in 1..(Len(upstream.Servers) - 1) |->
                  [Pod |-> upstream.Servers[i + 1].Pod,
                   Target |-> upstream.Servers[i + 1].Target]]]

RenderUpstream(upstream) ==
  [Path |-> upstream.Path,
   Host |-> upstream.Host,
   Name |-> upstream.Name,
   Servers |-> [i \in 1..Len(upstream.Servers) |->
                  [Pod |-> upstream.Servers[i].Pod,
                   Target |-> upstream.Servers[i].Target]]]

Render(tmplData) ==
  LET ukeys == SortedKeys(DOMAIN tmplData.Upstreams)
      hkeys == SortedKeys(DOMAIN tmplData.Hosts)
  IN [Default |-> FALSE,
      Upstreams |-> [i \in 1..Len(ukeys) |-> RenderUpstream(tmplData.Upstreams[ukeys[i]])],
      Servers |-> [i \in 1..Len(hkeys) |-> RenderServer(tmplData.Port, hkeys[i], tmplData.Hosts[hkeys[i]])],
      DefaultServerPort |-> tmplData.Port]

\* defaultNginxConfTmpl executed with the configuration: the server that
\* listens on the configured port and closes every connection (444)
RenderDefault(config) ==
  [Default |-> TRUE, Upstreams |-> <<>>, Servers |-> <<>>,
   DefaultServerPort |-> config.Port]

\* GetDefaultConf: the text is rendered once and kept in the package variable
\* defaultNginxConf; cached is that variable, <<>> for "" and << text >> for
\* a kept text
GetDefaultConf(config, cached) ==
  IF cached = <<>> THEN RenderDefault(config) ELSE cached[1]

\* the data the template is executed with, for one map iteration order
TemplateData(config, cache, order) ==
  ProcessPods([Hosts |-> EmptyMap, Upstreams |-> EmptyMap, Port |-> config.Port],
              cache, order)

\* GetConf without the quick out for a cache with no pods
GetConfWithoutQuickOut(config, cached, cache, order) ==
  Render(TemplateData(config, cache, order))

\* GetConf for one iteration order of cache.Pods
GetConf(config, cached, cache, order) ==
  IF Cardinality(DOMAIN cache.Pods) = 0 THEN GetDefaultConf(config, cached)
  ELSE Render(TemplateData(config, cache, order))

\* the orders in which ranging over a Go map may deliver its keys
RECURSIVE Orders(_)
Orders(keys) ==
  IF keys = {} THEN { <<>> }
  ELSE UNION { { << k >> \o o : o \in Orders(keys \ {k}) } : k \in keys }

\* every text GetConf can return for the cache
GetConfSet(config, cached, cache) ==
  { GetConf(config, cached, cache, order) : order \in Orders(DOMAIN cache.Pods) }

(***************************************************************************)
(* The objects and events the watches deliver                              *)
(***************************************************************************)

IP1 == <<"1", "0", ".", "0", ".", "0", ".", "1">>
IP2 == <<"1", "0", ".", "0", ".", "0", ".", "2">>

HostsA == <<"a">>
HostsB == <<"b">>
PathsRoot == <<"8", "0", ":", "/">>
PathsX == <<"8", "1", ":", "/", "x">>

NameP1 == <<"p", "1">>
NameP2 == <<"p", "2">>

MicroserviceTrue == KeyMicroserviceL :> "true"

RoutingAnnotations(hosts, paths) ==
  (KeyTrafficHostsA :> hosts) @@ (KeyPublicPathsA :> paths)

\* an api.Pod: the fields the controller reads
Pod(name, namespace, phase, ip, labels, annotations) ==
  [Name |-> name, Namespace |-> namespace, Phase |-> phase, PodIP |-> ip,
   Labels |-> labels, Annotations |-> annotations]

\* a running microservice pod of namespace A that serves a/ on port 80
P1 == Pod(NameP1, "A", "Running", IP1, MicroserviceTrue,
          RoutingAnnotations(HostsA, PathsRoot))

\* P1 with one thing changed
P1NewIP == [P1 EXCEPT !.PodIP = IP2]
P1Pending == [P1 EXCEPT !.Phase = "Pending", !.PodIP = <<>>]
P1LabelFalse == [P1 EXCEPT !.Labels = KeyMicroserviceL :> "false"]
P1NoLabel == [P1 EXCEPT !.Labels = EmptyMap]
P1NewHosts == [P1 EXCEPT !.Annotations = RoutingAnnotations(HostsB, PathsRoot)]
P1NewPaths == [P1 EXCEPT !.Annotations = RoutingAnnotations(HostsA, PathsX)]
P1NewNote ==
  [P1 EXCEPT !.Annotations = RoutingAnnotations(HostsA, PathsRoot) @@ ("note" :> <<"x">>)]
P1MicroserviceAnnotation ==
  [P1 EXCEPT !.Annotations =
     RoutingAnnotations(HostsA, PathsRoot) @@ (KeyMicroserviceL :> <<"x">>)]

\* a running microservice pod of namespace B that serves the same a/
P2 == Pod(NameP2, "B", "Running", IP2, MicroserviceTrue,
          RoutingAnnotations(HostsA, PathsRoot))

PodObjects ==
  {P1, P1NewIP, P1Pending, P1LabelFalse, P1NoLabel, P1NewHosts, P1NewPaths,
   P1NewNote, P1MicroserviceAnnotation, P2}

\* a watch.Event
Event(type, object) == [Type |-> type, Object |-> object]

PodEvents ==
  { Event("ADDED", o) : o \in {P1, P1Pending, P1LabelFalse, P2} }
    \cup { Event("MODIFIED", o) : o \in PodObjects }
    \cup { Event("DELETED", o) : o \in {P1, P2} }

\* the sequences over S of length at most n
SeqsUpTo(S, n) == UNION { [1..k -> S] : k \in 0..n }

\* the largest batch of events handed to one call of an update function
MaxBatch == 2

(***************************************************************************)
(* State                                                                   *)
(***************************************************************************)

VARIABLES
  pods,          \* cache.Pods: pod name -> PodWithRoutes
  secrets,       \* cache.Secrets: namespace -> secret
  conf,          \* the configuration last written for nginx
  podEvents,     \* the pod events collected in the current window
  secretEvents,  \* the secret events collected in the current window
  pc,            \* "running", or "panicked" once a call has panicked
  last,          \* what the last update did: its inputs and what it returned
  config,        \* the router.Config the controller was started with
  defaultNginxConf,  \* the package variable of nginx/config.go: <<>> or << text >>
  timer,         \* the seconds left on the time.After of the pending select
  env            \* the environment of the process: variable name -> value

vars == <<pods, secrets, conf, podEvents, secretEvents, pc, last, config,
          defaultNginxConf, timer, env>>

Cache == [Pods |-> pods, Secrets |-> secrets]

\* time.After(2 * time.Second): the seconds the select of the window waits
WindowSeconds == 2

\* what can happen when nginx is reloaded: the file is written and the
\* command succeeds; the command fails; nginx.conf cannot be written; or
\* KUBE_HOST is set and neither is done
ReloadRuns == {"ok", "commandFailed", "writeFailed", "skipped"}

\* ShellOut with every failure fatal
ShellOutAlwaysFatal(run, exitOnFailure) ==
  IF run = "commandFailed" THEN "fatal" ELSE "ok"

\* shellOut(cmd, exitOnFailure): "fatal" for log.Fatal, "logged" for
\* log.Println of the failure, "ok" when the command succeeded or was not run
ShellOut(run, exitOnFailure) ==
  IF run = "commandFailed"
    THEN IF exitOnFailure THEN "fatal" ELSE "logged"
    ELSE "ok"

\* RestartServer(conf, exitOnFailure): writeNginxConf, which is fatal when
\* the file cannot be written, then shellOut("nginx -s reload", exitOnFailure)
RestartServer(run, exitOnFailure) ==
  IF run = "writeFailed" THEN "fatal" ELSE ShellOut(run, exitOnFailure)

\* no update since the current window began
NoLast ==
  [kind |-> "none", podsBefore |-> EmptyMap, secretsBefore |-> EmptyMap,
   podEvents |-> <<>>, secretEvents |-> <<>>,
   podCalled |-> FALSE, podRet |-> FALSE,
   secretCalled |-> FALSE, secretRet |-> FALSE, panicked |-> FALSE,
   order |-> <<>>, podList |-> <<>>, secretList |-> <<>>,
   reload |-> "none", reloadResult |-> "none"]

(***************************************************************************)
(* SpecPods: UpdatePodCacheForEvents applied to batch after batch          *)
(***************************************************************************)

InitEmpty ==
  /\ config = DefaultConfig
  /\ defaultNginxConf = << RenderDefault(DefaultConfig) >>
  /\ pods = EmptyMap
  /\ secrets = EmptyMap
  /\ conf = RenderDefault(DefaultConfig)
  /\ podEvents = <<>>
  /\ secretEvents = <<>>
  /\ pc = "running"
  /\ last = NoLast
  /\ timer = WindowSeconds
  /\ env = NoEnv

ApplyPodEvents ==
  \E events \in SeqsUpTo(PodEvents, MaxBatch) :
    LET r == UpdatePodCacheForEvents(pods, events)
    IN /\ pc = "running"
       /\ last.kind = "none"
       /\ pods' = r.cache
       /\ pc' = IF r.panicked THEN "panicked" ELSE "running"
       /\ last' = [NoLast EXCEPT !.kind = "pods",
                                 !.podsBefore = pods,
                                 !.podEvents = events,
                                 !.podCalled = TRUE,
                                 !.podRet = r.needsRestart,
                                 !.panicked = r.panicked]
       /\ UNCHANGED <<env, timer, config, defaultNginxConf, secrets, conf, podEvents, secretEvents>>

\* the caller is done with what the call returned
Return ==
  /\ pc = "running"
  /\ last.kind \in {"pods", "secrets", "conf"}
  /\ last' = NoLast
  /\ UNCHANGED <<env, timer, config, defaultNginxConf, pods, secrets, conf, podEvents, secretEvents, pc>>

NextPods == ApplyPodEvents \/ Return

SpecPods == InitEmpty /\ [][NextPods]_vars

(***************************************************************************)
(* Claims about UpdatePodCacheForEvents (checked under SpecPods)           *)
(***************************************************************************)

\* the pod carries the routable label with the value "true"
HasRoutableLabel(pod) ==
  \E k \in DOMAIN pod.Labels : k = "microservice" /\ pod.Labels[k] = "true"

\* the call the last batch of pod events went to has returned
PodCallReturned == last.podCalled /\ ~last.panicked

\* the pod cache as event i of the last batch found it
PodCacheAt(i) ==
  UpdatePodCacheForEvents(last.podsBefore, SubSeq(last.podEvents, 1, i - 1)).cache

\* event i of the last batch is a Modified event for a pod that event found cached
ModifiedCached(i) ==
  /\ last.podEvents[i].Type = "MODIFIED"
  /\ last.podEvents[i].Object.Name \in DOMAIN PodCacheAt(i)

\* event i of the last batch changes the pod IP of a cached pod and nothing
\* else, and with it the target of one of the pod's routes
OnlyIPChanged(i) ==
  LET pod == last.podEvents[i].Object
      cached == PodCacheAt(i)[pod.Name]
      routes == GetRoutes(pod)
  IN /\ pod.PodIP # cached.Pod.PodIP
     /\ [pod EXCEPT !.PodIP = cached.Pod.PodIP] = cached.Pod
     /\ Len(routes) = Len(cached.Routes)
     /\ \E j \in 1..Len(routes) : TargetOf(routes[j]) # TargetOf(cached.Routes[j])

\* C3: a Modified event for a cached pod that changes only the pod IP, and so
\* the target of one of its routes, makes UpdatePodCacheForEvents return true.
C3_IPChangeNeedsRestart ==
  PodCallReturned =>
    \A i \in 1..Len(last.podEvents) :
      ModifiedCached(i) /\ OnlyIPChanged(i) => last.podRet

\* event i of the last batch gives a cached pod without routes its first
\* route, or leaves a cached pod with routes without any
RoutesAppearOrVanish(i) ==
  LET pod == last.podEvents[i].Object
      cached == PodCacheAt(i)[pod.Name]
  IN (Len(cached.Routes) = 0) # (Len(GetRoutes(pod)) = 0)

\* C4: a Modified event that turns a cached pod with no routes into one with
\* routes, or one with routes into one with none, makes
\* UpdatePodCacheForEvents return true.
C4_RoutabilityChangeNeedsRestart ==
  PodCallReturned =>
    \A i \in 1..Len(last.podEvents) :
      ModifiedCached(i) /\ RoutesAppearOrVanish(i) => last.podRet

\* C5: a batch that is one Deleted event for a pod that has no cache entry
\* returns false and leaves the pod cache as it was.
C5_DeleteOfUnknownPodIsNoop ==
  ( /\ PodCallReturned
    /\ Len(last.podEvents) = 1
    /\ last.podEvents[1].Type = "DELETED"
    /\ last.podEvents[1].Object.Name \notin DOMAIN last.podsBefore )
  => ~last.podRet /\ pods = last.podsBefore

\* the hosts and the paths annotation of event i's pod equal the cached ones
RoutingAnnotationsEqual(i) ==
  LET pod == last.podEvents[i].Object
      cached == PodCacheAt(i)[pod.Name]
  IN /\ MapGet(pod.Annotations, KeyTrafficHostsA)
          = MapGet(cached.Pod.Annotations, KeyTrafficHostsA)
     /\ MapGet(pod.Annotations, KeyPublicPathsA)
          = MapGet(cached.Pod.Annotations, KeyPublicPathsA)

\* C6: for a cached pod that still carries the routable label, a Modified
\* event whose hosts and paths annotations equal the cached ones does not
\* report needs_reload, and one whose hosts or paths annotation differs does.
C6_OnlyRoutingAnnotationsMatter ==
  PodCallReturned =>
    /\ ( /\ Len(last.podEvents) = 1
         /\ ModifiedCached(1)
         /\ HasRoutableLabel(last.podEvents[1].Object)
         /\ RoutingAnnotationsEqual(1) )
       => ~last.podRet
    /\ \A i \in 1..Len(last.podEvents) :
         ( /\ ModifiedCached(i)
           /\ HasRoutableLabel(last.podEvents[i].Object)
           /\ ~RoutingAnnotationsEqual(i) )
         => last.podRet

\* event i of the last batch takes a cached pod out of routing: a Modified
\* event without the label set to "true", or a Deleted event
RemovesCachedPod(i) ==
  LET event == last.podEvents[i]
  IN /\ event.Object.Name \in DOMAIN PodCacheAt(i)
     /\ \/ event.Type = "DELETED"
        \/ event.Type = "MODIFIED" /\ ~HasRoutableLabel(event.Object)

\* C7: a Modified event for a cached pod whose routable label is missing or
\* not "true", and a Deleted event for a cached pod, make
\* UpdatePodCacheForEvents return true, and the pod has no cache entry once
\* the event is applied.
C7_UnlabelledOrDeletedPodIsRemoved ==
  PodCallReturned =>
    /\ \A i \in 1..Len(last.podEvents) : RemovesCachedPod(i) => last.podRet
    /\ ( Len(last.podEvents) > 0 /\ RemovesCachedPod(Len(last.podEvents)) )
       => last.podEvents[Len(last.podEvents)].Object.Name \notin DOMAIN pods

\* a batch that ends with a Modified event whose label is "false", once for a
\* pod that was cached, has returned
C7_Witness ==
  /\ PodCallReturned
  /\ Len(last.podEvents) = 2
  /\ last.podEvents[2] = Event("MODIFIED", P1LabelFalse)
  /\ RemovesCachedPod(2)
  /\ NameP1 \notin DOMAIN pods
  /\ last.podRet

(***************************************************************************)
(* SpecSecrets: UpdateSecretCacheForEvents applied to batch after batch    *)
(***************************************************************************)

\* an api.Secret: the fields the controller reads
Secret(name, namespace, data) ==
  [Name |-> name, Namespace |-> namespace, Data |-> data]

\* the routing secret of namespace A with the API key "k"
SA == Secret(APIKeySecret, "A", APIKeySecretDataField :> <<"k">>)

\* SA with one thing changed
SANewByte == [SA EXCEPT !.Data = APIKeySecretDataField :> <<"q">>]
SANewLength == [SA EXCEPT !.Data = APIKeySecretDataField :> <<"k", "q">>]
SAEmptyKey == [SA EXCEPT !.Data = APIKeySecretDataField :> <<>>]
SANewField ==
  [SA EXCEPT !.Data = (APIKeySecretDataField :> <<"k">>) @@ ("new-key" :> <<"x">>)]
SANoKey == [SA EXCEPT !.Data = "new-key" :> <<"x">>]

\* the routing secret of namespace B
SB == Secret(APIKeySecret, "B", APIKeySecretDataField :> <<"q">>)

SecretObjects == {SA, SANewByte, SANewLength, SAEmptyKey, SANewField, SANoKey, SB}

SecretEvents ==
  { Event("ADDED", o) : o \in {SA, SANoKey, SB} }
    \cup { Event("MODIFIED", o) : o \in SecretObjects }
    \cup { Event("DELETED", o) : o \in {SA, SB} }

ApplySecretEvents ==
  \E events \in SeqsUpTo(SecretEvents, MaxBatch) :
    LET r == UpdateSecretCacheForEvents(secrets, events)
    IN /\ pc = "running"
       /\ last.kind = "none"
       /\ secrets' = r.cache
       /\ last' = [NoLast EXCEPT !.kind = "secrets",
                                 !.secretsBefore = secrets,
                                 !.secretEvents = events,
                                 !.secretCalled = TRUE,
                                 !.secretRet = r.needsRestart]
       /\ UNCHANGED <<env, timer, config, defaultNginxConf, pods, conf, podEvents, secretEvents, pc>>

NextSecrets == ApplySecretEvents \/ Return

SpecSecrets == InitEmpty /\ [][NextSecrets]_vars

(***************************************************************************)
(* Claims about UpdateSecretCacheForEvents (checked under SpecSecrets)     *)
(***************************************************************************)

\* the bytes of the configured data field that the cache holds for a
\* namespace: none without an entry or without the field
KeyHeld(cache, namespace) ==
  IF namespace \in DOMAIN cache /\ "api-key" \in DOMAIN cache[namespace].Data
    THEN [held |-> TRUE, bytes |-> cache[namespace].Data["api-key"]]
    ELSE [held |-> FALSE, bytes |-> <<>>]

\* C8: a Modified secret event reports needs_reload exactly when the bytes of
\* the configured data field held by the cache for the namespace differ
\* before and after it, whatever the cache held before, no entry included.
C8_ModifiedReloadsIffKeyChanged ==
  ( /\ last.secretCalled
    /\ Len(last.secretEvents) = 1
    /\ last.secretEvents[1].Type = "MODIFIED" )
  => LET namespace == last.secretEvents[1].Object.Namespace
     IN last.secretRet
          <=> KeyHeld(last.secretsBefore, namespace) # KeyHeld(secrets, namespace)

\* C9: an Added secret event stores the secret under its namespace, a Deleted
\* one removes the entry of the namespace, and both report needs_reload; after
\* either the cache has an entry for the namespace iff the event was Added.
C9_AddedAndDeletedSecrets ==
  last.secretCalled =>
    LET n == Len(last.secretEvents)
    IN /\ ( \E i \in 1..n : last.secretEvents[i].Type \in {"ADDED", "DELETED"} )
          => last.secretRet
       /\ ( n > 0 /\ last.secretEvents[n].Type = "ADDED" )
          => /\ last.secretEvents[n].Object.Namespace \in DOMAIN secrets
             /\ secrets[last.secretEvents[n].Object.Namespace]
                  = last.secretEvents[n].Object
       /\ ( n > 0 /\ last.secretEvents[n].Type = "DELETED" )
          => last.secretEvents[n].Object.Namespace \notin DOMAIN secrets

\* a secret was added and then deleted: the call reported needs_reload and the
\* namespace has no entry
C9_Witness ==
  /\ last.secretCalled
  /\ last.secretEvents = << Event("ADDED", SA), Event("DELETED", SA) >>
  /\ last.secretRet
  /\ "A" \notin DOMAIN secrets

(***************************************************************************)
(* Spec: the control loop (main.go)                                        *)
(***************************************************************************)

\* a routing-unrelated secret of namespace A
SOther == Secret("other", "A", APIKeySecretDataField :> <<"x">>)

\* what the watches of the control loop deliver
LoopPodEvents ==
  { Event("ADDED", P1), Event("ADDED", P2),
    Event("MODIFIED", P1), Event("MODIFIED", P1NewIP),
    Event("DELETED", P1), Event("DELETED", P2) }

LoopSecretEvents ==
  { Event("ADDED", SA), Event("MODIFIED", SA), Event("MODIFIED", SANewByte),
    Event("DELETED", SA), Event("MODIFIED", SOther) }

\* what the lists of initController return: objects of distinct namespace and name
Listings(objects, n) ==
  { l \in SeqsUpTo(objects, n) :
      \A i, j \in 1..Len(l) :
        i # j => <<l[i].Namespace, l[i].Name>> # <<l[j].Namespace, l[j].Name>> }

\* the most objects one list returns
MaxList == 2

\* the most events collected in one window
MaxWindow == 2

\* a pod of namespace B with the name of P1, which serves b/
P1OfB == Pod(NameP1, "B", "Running", IP2, MicroserviceTrue,
             RoutingAnnotations(HostsB, PathsRoot))

\* GetMicroservicePodList: the pods the label selector "microservice = true"
\* selects, in every namespace and in every phase
PodLists ==
  Listings({ o \in {P1, P1NoLabel, P1Pending, P1OfB, P2} : IsMicroservice(o) },
           MaxList)

\* what the API server lists as secrets
SecretLists == Listings({SA, SANoKey, SOther}, MaxList)

\* GetIngressSecretList: the listed secrets that have the configured name and
\* the configured data field
GetIngressSecretList(listed) ==
  SelectSeq(listed, LAMBDA secret :
    secret.Name = APIKeySecret /\ APIKeySecretDataField \in DOMAIN secret.Data)

\* initController: cache.Pods[pod.Name] = &PodWithRoutes{...} for every listed pod
RECURSIVE LoadPods(_, _)
LoadPods(cache, items) ==
  IF items = <<>> THEN cache
  ELSE LoadPods(MapPut(cache, Head(items).Name, NewPodWithRoutes(Head(items))),
                Tail(items))

\* initController: cache.Secrets[secret.Namespace] = &secret for every listed secret
RECURSIVE LoadSecrets(_, _)
LoadSecrets(cache, items) ==
  IF items = <<>> THEN cache
  ELSE LoadSecrets(MapPut(cache, Head(items).Namespace, Head(items)), Tail(items))

\* initController: the new cache, filled from the two lists
InitController(podList, secretList) ==
  [Pods |-> LoadPods(EmptyMap, podList),
   Secrets |-> LoadSecrets(EmptyMap, GetIngressSecretList(secretList))]

\* every outcome of initController: the cache it returns and the
\* configuration it has written, nginx.GetConf of that cache
InitControllerOutcomes ==
  UNION { { [cache |-> InitController(podList, secretList), conf |-> c,
               podList |-> podList, secretList |-> secretList] :
              c \in GetConfSet(DefaultConfig, << RenderDefault(DefaultConfig) >>,
                                InitController(podList, secretList)) } :
          podList \in PodLists, secretList \in SecretLists }

\* main, up to the first window: the cache initController builds
Init ==
  /\ config = DefaultConfig
  /\ defaultNginxConf = << RenderDefault(DefaultConfig) >>
  /\ \E outcome \in InitControllerOutcomes :
       /\ pods = outcome.cache.Pods
       /\ secrets = outcome.cache.Secrets
       /\ conf = outcome.conf
  /\ podEvents = <<>>
  /\ secretEvents = <<>>
  /\ pc = "running"
  /\ last = NoLast
  /\ timer = WindowSeconds
  /\ env = NoEnv

WindowOpen ==
  pc = "running" /\ Len(podEvents) + Len(secretEvents) < MaxWindow

\* case event, ok := <-podWatcher.ResultChan(), ok; the loop goes round to a
\* new select, which waits on a new time.After
RecvPodEvent ==
  \E event \in LoopPodEvents :
    /\ WindowOpen
    /\ podEvents' = Append(podEvents, event)
    /\ last' = NoLast
    /\ timer' = WindowSeconds
    /\ UNCHANGED <<env, config, defaultNginxConf, pods, secrets, conf, secretEvents, pc>>

\* case event, ok := <-secretWatcher.ResultChan(), ok: only events of secrets
\* with the configured name are recorded
RecvSecretEvent ==
  \E event \in LoopSecretEvents :
    /\ WindowOpen
    /\ secretEvents' = IF event.Object.Name = APIKeySecret
                         THEN Append(secretEvents, event)
                         ELSE secretEvents
    /\ last' = NoLast
    /\ timer' = WindowSeconds
    /\ UNCHANGED <<env, config, defaultNginxConf, pods, secrets, conf, podEvents, pc>>

\* a watch channel was closed: doRestart, so both watches are stopped and
\* initController builds a new cache; the events collected so far stay
RestartWith(outcome, run) ==
  /\ pc = "running"
  /\ pods' = outcome.cache.Pods
  /\ secrets' = outcome.cache.Secrets
  /\ conf' = IF run = "writeFailed" THEN conf ELSE outcome.conf
  /\ pc' = IF RestartServer(run, TRUE) = "fatal" THEN "fatal" ELSE "running"
  /\ last' = [NoLast EXCEPT !.kind = "restart",
                            !.podEvents = podEvents,
                            !.secretEvents = secretEvents,
                            !.podList = outcome.podList,
                            !.secretList = outcome.secretList,
                            !.reload = run,
                            !.reloadResult = RestartServer(run, TRUE)]
  /\ timer' = WindowSeconds
  /\ UNCHANGED <<env, config, defaultNginxConf, podEvents, secretEvents>>

\* the restart with the file written and nginx reloaded
WatcherClosed ==
  \E outcome \in InitControllerOutcomes : RestartWith(outcome, "ok")

\* case <-time.After(2 * time.Second): the timer of the pending select has
\* run out, the window ends and the collected events are handed to the update
\* functions; the next window starts with a new select and a new timer
WindowExpiredWith(run) ==
  LET p == IF Len(podEvents) > 0
             THEN UpdatePodCacheForEvents(pods, podEvents)
             ELSE [cache |-> pods, needsRestart |-> FALSE, panicked |-> FALSE]
      secretCalled == ~p.panicked /\ ~p.needsRestart /\ Len(secretEvents) > 0
      s == IF secretCalled
             THEN UpdateSecretCacheForEvents(secrets, secretEvents)
             ELSE [cache |-> secrets, needsRestart |-> FALSE]
      needsRestart == p.needsRestart \/ s.needsRestart
      reloads == /\ ~p.panicked
                 /\ needsRestart
                 /\ (Len(podEvents) > 0 \/ Len(secretEvents) > 0)
      result == IF reloads THEN RestartServer(run, FALSE) ELSE "none"
  IN /\ pc = "running"
     /\ timer = 0
     /\ pods' = p.cache
     /\ secrets' = s.cache
     /\ pc' = IF p.panicked THEN "panicked"
              ELSE IF result = "fatal" THEN "fatal" ELSE "running"
     /\ IF reloads /\ run # "writeFailed"
          THEN conf' \in GetConfSet(config, defaultNginxConf,
                                    [Pods |-> pods', Secrets |-> secrets'])
          ELSE conf' = conf
     /\ podEvents' = <<>>
     /\ secretEvents' = <<>>
     /\ last' = [kind |-> "window",
                 podsBefore |-> pods, secretsBefore |-> secrets,
                 podEvents |-> podEvents, secretEvents |-> secretEvents,
                 podCalled |-> Len(podEvents) > 0, podRet |-> p.needsRestart,
                 secretCalled |-> secretCalled, secretRet |-> s.needsRestart,
                 panicked |-> p.panicked,
                 order |-> <<>>, podList |-> <<>>, secretList |-> <<>>,
                 reload |-> IF reloads THEN run ELSE "none",
                 reloadResult |-> result]
     /\ timer' = WindowSeconds
     /\ UNCHANGED <<env, config, defaultNginxConf>>

\* the window ends with the file written and nginx reloaded
WindowExpired == WindowExpiredWith("ok")

\* a second passes while the select waits: no channel delivered anything
Tick ==
  /\ pc = "running"
  /\ timer > 0
  /\ timer' = timer - 1
  /\ UNCHANGED <<env, config, defaultNginxConf, pods, secrets, conf, podEvents,
                 secretEvents, pc, last>>

Next == RecvPodEvent \/ RecvSecretEvent \/ WatcherClosed \/ Tick \/ WindowExpired

Spec == Init /\ [][Next]_vars

(***************************************************************************)
(* Claims about the control loop (checked under Spec)                      *)
(***************************************************************************)

\* a window has just been processed
WindowProcessed == last.kind = "window" /\ ~last.panicked

\* C1: if UpdatePodCacheForEvents returns false, the cache compiles to the
\* same configuration after the batch as before it; hence after every
\* processed window the written configuration is what the cache compiles to.
C1_NoRestartMeansSameConfiguration ==
  WindowProcessed =>
    /\ ( last.podCalled /\ ~last.podRet )
       => GetConfSet(config, defaultNginxConf,
                     [Pods |-> pods, Secrets |-> last.secretsBefore])
            = GetConfSet(config, defaultNginxConf,
                         [Pods |-> last.podsBefore, Secrets |-> last.secretsBefore])
    /\ conf \in GetConfSet(config, defaultNginxConf, Cache)

\* C2: when a window with events ends, the collected pod events and the
\* collected secret events are all applied to the cache, the secret events
\* also when the pod events already reported needs_reload.
C2_EveryCollectedEventIsApplied ==
  WindowProcessed =>
    /\ Len(last.podEvents) > 0
       => pods = UpdatePodCacheForEvents(last.podsBefore, last.podEvents).cache
    /\ Len(last.secretEvents) > 0
       => /\ last.secretCalled
          /\ secrets
               = UpdateSecretCacheForEvents(last.secretsBefore, last.secretEvents).cache

(***************************************************************************)
(* SpecConf: GetConf applied to the caches that events build               *)
(***************************************************************************)

IP3 == <<"1", "0", ".", "0", ".", "0", ".", "3">>
NameP3 == <<"p", "3">>

\* a second pod of namespace A that serves a/
P3 == Pod(NameP3, "A", "Running", IP3, MicroserviceTrue,
          RoutingAnnotations(HostsA, PathsRoot))

ConfPodEvents ==
  { Event("ADDED", o) : o \in {P1, P1NewPaths, P2, P3} }
    \cup { Event("DELETED", o) : o \in {P1, P2, P3} }

ConfSecretEvents ==
  { Event(t, o) : t \in {"ADDED", "DELETED"}, o \in {SA, SB} }
    \cup { Event("ADDED", SAEmptyKey) }

\* one pod event is applied to the cache
PodEvent ==
  \E event \in ConfPodEvents :
    LET r == UpdatePodCacheForEvents(pods, << event >>)
    IN /\ pc = "running"
       /\ last.kind = "none"
       /\ pods' = r.cache
       /\ pc' = IF r.panicked THEN "panicked" ELSE "running"
       /\ UNCHANGED <<env, timer, config, defaultNginxConf, secrets, conf, podEvents, secretEvents, last>>

\* one secret event is applied to the cache
SecretEvent ==
  \E event \in ConfSecretEvents :
    /\ pc = "running"
    /\ last.kind = "none"
    /\ secrets' = UpdateSecretCacheForEvents(secrets, << event >>).cache
    /\ UNCHANGED <<env, timer, config, defaultNginxConf, pods, conf, podEvents, secretEvents, pc, last>>

\* nginx.GetConf(cache); ranging over cache.Pods delivers the entries in some order
Compile ==
  \E order \in Orders(DOMAIN pods) :
    /\ pc = "running"
    /\ last.kind = "none"
    /\ conf' = GetConf(config, defaultNginxConf, Cache, order)
    /\ defaultNginxConf' = IF Cardinality(DOMAIN pods) = 0
                             THEN << GetDefaultConf(config, defaultNginxConf) >>
                             ELSE defaultNginxConf
    /\ pods' = CacheAfterGetConf(Cache, order).Pods
    /\ secrets' = CacheAfterGetConf(Cache, order).Secrets
    /\ last' = [NoLast EXCEPT !.kind = "conf", !.order = order]
    /\ UNCHANGED <<env, timer, config, podEvents, secretEvents, pc>>

NextConf == PodEvent \/ SecretEvent \/ Compile \/ Return

SpecConf == InitEmpty /\ [][NextConf]_vars

(***************************************************************************)
(* Claims about GetConf (checked under SpecConf)                           *)
(***************************************************************************)

\* conf is what GetConf has just returned for the cache
Compiled == last.kind = "conf"

\* the locations of conf, each with the host of its server block
LocationsOfConf ==
  UNION { { [Host |-> conf.Servers[i].ServerName,
             Location |-> conf.Servers[i].Locations[j]] :
              j \in 1..Len(conf.Servers[i].Locations) } :
          i \in 1..Len(conf.Servers) }

\* the cached pods with a route for the host and path
PodsRouted(host, path) ==
  { name \in DOMAIN pods :
      \E r \in 1..Len(pods[name].Routes) :
        /\ pods[name].Routes[r].Incoming.Host = host
        /\ pods[name].Routes[r].Incoming.Path = path }

\* the base64 text of the API key stored under the namespace, "" without one
KeyOfNamespace(namespace) ==
  IF namespace \in DOMAIN secrets /\ "api-key" \in DOMAIN secrets[namespace].Data
    THEN EncodeToString(secrets[namespace].Data["api-key"])
    ELSE <<>>

\* C10 as claimed: a location that proxies to a pod of namespace A is never
\* gated by the API key of a secret stored under another namespace B.
C10_NoForeignSecret ==
  Compiled =>
    \A l \in LocationsOfConf :
      \A name \in PodsRouted(l.Host, l.Location.Path) :
        l.Location.Secret # <<>>
          => /\ l.Location.Namespace = pods[name].Pod.Namespace
             /\ l.Location.Secret = KeyOfNamespace(pods[name].Pod.Namespace)

\* the first pod, in the order GetConf visited the cache, with a route for
\* the host and path
FirstRouted(host, path) ==
  last.order[CHOOSE i \in 1..Len(last.order) :
               /\ last.order[i] \in PodsRouted(host, path)
               /\ \A j \in 1..(i - 1) : last.order[j] \notin PodsRouted(host, path)]

\* C10 as amended: the API key that gates a location is the key stored under
\* the namespace of the first pod GetConf visits for the host and path, so a
\* location whose pods all belong to one namespace is never gated by the key
\* of a secret stored under another namespace.
C10_SecretOfFirstSeenNamespace ==
  Compiled =>
    \A l \in LocationsOfConf :
      LET routed == PodsRouted(l.Host, l.Location.Path)
          first == pods[FirstRouted(l.Host, l.Location.Path)].Pod.Namespace
      IN /\ routed # {}
         /\ l.Location.Secret = KeyOfNamespace(first)
         /\ l.Location.Secret # <<>> => l.Location.Namespace = first
         /\ \A namespace \in {"A", "B"} :
              ( /\ \A name \in routed : pods[name].Pod.Namespace = namespace
                /\ l.Location.Secret # <<>> )
              => /\ l.Location.Namespace = namespace
                 /\ l.Location.Secret = KeyOfNamespace(namespace)

\* a configuration was compiled in which pods of two namespaces, each with a
\* stored API key, serve one location
C10_Witness ==
  /\ Compiled
  /\ DOMAIN secrets = {"A", "B"}
  /\ \E l \in LocationsOfConf :
       /\ l.Location.Secret # <<>>
       /\ l.Location.IsUpstream
       /\ \E n1, n2 \in PodsRouted(l.Host, l.Location.Path) :
            pods[n1].Pod.Namespace # pods[n2].Pod.Namespace

(***************************************************************************)
(* Claims about the API key check (checked under SpecConf)                 *)
(***************************************************************************)

\* the namespaces whose cached secret holds a non-empty API key
NamespacesWithKey ==
  { n \in DOMAIN secrets :
      /\ APIKeySecretDataField \in DOMAIN secrets[n].Data
      /\ secrets[n].Data[APIKeySecretDataField] # <<>> }

\* the location carries the check that returns 403 unless the header equals
\* the base64 text of the API key of the namespace
GatedBy(location, namespace) ==
  /\ location.Secret # <<>>
  /\ location.Secret = EncodeToString(secrets[namespace].Data[APIKeySecretDataField])

\* C11 as claimed: when namespace N has a cached non-empty API key, every
\* location through which a pod of N receives traffic carries the 403 check
\* against the base64 encoding of that key.
C11_EveryLocationOfNamespaceIsGated ==
  Compiled =>
    \A l \in LocationsOfConf :
      \A name \in PodsRouted(l.Host, l.Location.Path) :
        pods[name].Pod.Namespace \in NamespacesWithKey
          => GatedBy(l.Location, pods[name].Pod.Namespace)

\* C11 as amended: when namespace N has a cached non-empty API key, every
\* location all of whose pods belong to N carries the 403 check against the
\* base64 encoding of that key.
C11_SingleNamespaceLocationIsGated ==
  Compiled =>
    \A l \in LocationsOfConf :
      \A n \in NamespacesWithKey :
        ( /\ PodsRouted(l.Host, l.Location.Path) # {}
          /\ \A name \in PodsRouted(l.Host, l.Location.Path) :
               pods[name].Pod.Namespace = n )
        => GatedBy(l.Location, n)

\* a configuration was compiled with a location served by two pods of one
\* namespace that has a cached non-empty API key
C11_Witness ==
  /\ Compiled
  /\ \E l \in LocationsOfConf :
       /\ Cardinality(PodsRouted(l.Host, l.Location.Path)) = 2
       /\ \A name \in PodsRouted(l.Host, l.Location.Path) :
            pods[name].Pod.Namespace = "A"
       /\ "A" \in NamespacesWithKey
       /\ GatedBy(l.Location, "A")

(***************************************************************************)
(* Claims about the compiled text (checked under SpecConf)                 *)
(***************************************************************************)

\* C12: for a fixed cache content GetConf returns the same text for every
\* order in which the pod entries are visited.
C12_GetConfOrderIndependent ==
  Compiled =>
    \A order \in Orders(DOMAIN pods) :
      GetConf(config, defaultNginxConf, Cache, order) = conf

(***************************************************************************)
(* SpecUpstreams: GetConf applied to caches whose pods share hosts and     *)
(* paths                                                                   *)
(***************************************************************************)

IP4 == <<"1", "0", ".", "0", ".", "0", ".", "4">>
IP5 == <<"1", "0", ".", "0", ".", "0", ".", "5">>
NameP4 == <<"p", "4">>
NameP5 == <<"p", "5">>
NameP6 == <<"p", "6">>

\* two hosts, the second one the first followed by "b"
HostsAAB == <<"a", " ", "a", "b">>
\* two pairs: / on port 80 and b/ on port 81
PathsRootB == <<"8", "0", ":", "/", " ", "8", "1", ":", "b", "/">>

\* two pods that serve a/, ab/ (port 80) and ab/, abb/ (port 81): the host a
\* with the path b/ and the host ab with the path / both concatenate to ab/
P4 == Pod(NameP4, "A", "Running", IP4, MicroserviceTrue,
          RoutingAnnotations(HostsAAB, PathsRootB))
P5 == Pod(NameP5, "A", "Running", IP5, MicroserviceTrue,
          RoutingAnnotations(HostsAAB, PathsRootB))

\* a pod that serves a/ from the IP of P3
P6 == Pod(NameP6, "A", "Running", IP3, MicroserviceTrue,
          RoutingAnnotations(HostsA, PathsRoot))

UpstreamPodEvents ==
  { Event(t, o) : t \in {"ADDED", "DELETED"}, o \in {P1, P3, P4, P5, P6} }

\* one pod event is applied to the cache
UpstreamPodEvent ==
  \E event \in UpstreamPodEvents :
    LET r == UpdatePodCacheForEvents(pods, << event >>)
    IN /\ pc = "running"
       /\ last.kind = "none"
       /\ pods' = r.cache
       /\ pc' = IF r.panicked THEN "panicked" ELSE "running"
       /\ UNCHANGED <<env, timer, config, defaultNginxConf, secrets, conf, podEvents, secretEvents, last>>

NextUpstreams == UpstreamPodEvent \/ Compile \/ Return

SpecUpstreams == InitEmpty /\ [][NextUpstreams]_vars

(***************************************************************************)
(* Claims about upstream blocks (checked under SpecUpstreams)              *)
(***************************************************************************)

\* the targets of the cached routes for the host and path
TargetsRouted(host, path) ==
  UNION { { TargetOf(pods[name].Routes[r]) :
              r \in { q \in 1..Len(pods[name].Routes) :
                        /\ pods[name].Routes[q].Incoming.Host = host
                        /\ pods[name].Routes[q].Incoming.Path = path } } :
          name \in DOMAIN pods }

\* the upstream blocks of conf written for the host and path
UpstreamsFor(host, path) ==
  { i \in 1..Len(conf.Upstreams) :
      conf.Upstreams[i].Host = host /\ conf.Upstreams[i].Path = path }

\* the upstream blocks of conf with the name
UpstreamsNamed(name) ==
  { i \in 1..Len(conf.Upstreams) : conf.Upstreams[i].Name = name }

\* the targets listed in the upstream block
MembersOf(upstream) ==
  { upstream.Servers[i].Target : i \in 1..Len(upstream.Servers) }

\* C13: a host+path served with several distinct targets has exactly one
\* location and exactly one upstream block; the block lists each distinct
\* target exactly once and nothing else, and the location proxies to the
\* block by name.
C13_SharedRouteHasOneUpstream ==
  Compiled =>
    \A l \in LocationsOfConf :
      LET targets == TargetsRouted(l.Host, l.Location.Path)
          blocks == UpstreamsFor(l.Host, l.Location.Path)
      IN Cardinality(targets) >= 2 =>
           /\ Cardinality(blocks) = 1
           /\ \A i \in blocks :
                /\ MembersOf(conf.Upstreams[i]) = targets
                /\ Len(conf.Upstreams[i].Servers) = Cardinality(targets)
                /\ l.Location.IsUpstream
                /\ l.Location.Target = conf.Upstreams[i].Name

(***************************************************************************)
(* SpecRoutes: GetRoutes and GetConf applied to one pod, over the          *)
(* annotations a pod can carry                                             *)
(***************************************************************************)

\* the most tokens in one annotation
MaxTokens == 2

\* host tokens: two hostnames and a token that is neither hostname nor IP
HostTokens == { <<"a">>, <<"b">>, <<"-">> }

\* PORT:PATH tokens: ports written as 80, 443, 81 and 080, the ports 0, 1,
\* 65535 and 65536, a port that is no integer, and two paths with an invalid segment
\* (a "%" that no two hex digits follow, alone and after a letter)
PathTokens ==
  { <<"8", "0", ":", "/">>,
    <<"4", "4", "3", ":", "/", "x">>,
    <<"8", "1", ":", "/", "x">>,
    <<"0", "8", "0", ":", "/">>,
    <<"0", ":", "/">>,
    <<"1", ":", "/">>,
    <<"6", "5", "5", "3", "5", ":", "/">>,
    <<"6", "5", "5", "3", "6", ":", "/">>,
    <<"x", ":", "/">>,
    <<"8", "0", ":", "/", "%">>,
    <<"8", "0", ":", "/", "x", "%">> }

\* the tokens written with one space between them
RECURSIVE JoinTokens(_)
JoinTokens(tokens) ==
  IF tokens = <<>> THEN <<>>
  ELSE IF Len(tokens) = 1 THEN tokens[1]
  ELSE tokens[1] \o <<" ">> \o JoinTokens(Tail(tokens))

\* the annotation maps over the tokens: the annotation absent, or present
\* with up to MaxTokens tokens
AnnotationsOver(key, tokens) ==
  { EmptyMap } \cup { key :> JoinTokens(s) : s \in SeqsUpTo(tokens, MaxTokens) }

\* the pods handed to GetRoutes: running with an IP, not running, and running
\* with no IP assigned yet
RoutePods ==
  { Pod(NameP1, "A", v.phase, v.ip, MicroserviceTrue, h @@ p) :
      v \in { [phase |-> "Running", ip |-> IP1],
              [phase |-> "Pending", ip |-> <<>>],
              [phase |-> "Running", ip |-> <<>>] },
      h \in AnnotationsOver(KeyTrafficHostsA, HostTokens),
      p \in AnnotationsOver(KeyPublicPathsA, PathTokens) }

\* the pod is added to the empty cache, which calls GetRoutes for it
AddRoutePod ==
  /\ pc = "running"
  /\ last.kind = "none"
  /\ pods = EmptyMap
  /\ \E pod \in RoutePods :
       pods' = UpdatePodCacheForEvents(pods, << Event("ADDED", pod) >>).cache
  /\ UNCHANGED <<env, timer, config, defaultNginxConf, secrets, conf, podEvents, secretEvents, pc, last>>

NextRoutes == AddRoutePod \/ Compile

SpecRoutes == InitEmpty /\ [][NextRoutes]_vars

(***************************************************************************)
(* Claims about routes and their targets (checked under SpecRoutes)        *)
(***************************************************************************)

\* the routes of the cached pods
CachedRoutes ==
  UNION { { pods[name].Routes[r] : r \in 1..Len(pods[name].Routes) } :
          name \in DOMAIN pods }

\* the targets conf proxies to for the host and path: the target of the
\* location, or the members of the upstream block the location names
RenderedTargets(host, path) ==
  UNION { IF l.Location.IsUpstream
            THEN UNION { MembersOf(conf.Upstreams[i]) :
                           i \in UpstreamsNamed(l.Location.Target) }
            ELSE { l.Location.Target } :
          l \in { m \in LocationsOfConf :
                    m.Host = host /\ m.Location.Path = path } }

\* the number a port is written as
PortNumber(port) == Atoi(port).val

\* C14: the rendered target of a route is the pod IP alone when the route's
\* port is 80 or 443, and ip:port for every other port.
C14_TargetLeavesOutPort80And443 ==
  Compiled =>
    \A route \in CachedRoutes :
      LET expected ==
            IF PortNumber(route.Outgoing.Port) \in {80, 443}
              THEN route.Outgoing.IP
              ELSE route.Outgoing.IP \o <<":">> \o route.Outgoing.Port
      IN expected \in RenderedTargets(route.Incoming.Host, route.Incoming.Path)

(***************************************************************************)
(* SpecDefault: the controller started with any listen port                *)
(***************************************************************************)

\* the listen ports the controller is started with: the default, a custom
\* port and the two ends of the valid range
ConfigPorts == {1, 80, 90, 65535}

Configs == { [DefaultConfig EXCEPT !.Port = p] : p \in ConfigPorts }

\* main before nginx is started: the configuration is read from the
\* environment, no default text is kept yet, and the nginx.conf on disk is
\* what an earlier run left
InitStarting ==
  /\ config \in Configs
  /\ defaultNginxConf = <<>>
  /\ pods = EmptyMap
  /\ secrets = EmptyMap
  /\ conf \in { RenderDefault(c) : c \in Configs }
  /\ podEvents = <<>>
  /\ secretEvents = <<>>
  /\ pc = "starting"
  /\ last = NoLast
  /\ timer = WindowSeconds
  /\ env = NoEnv

\* nginx.StartServer(nginx.GetDefaultConf(config))
StartServer ==
  /\ pc = "starting"
  /\ conf' = GetDefaultConf(config, defaultNginxConf)
  /\ defaultNginxConf' = << GetDefaultConf(config, defaultNginxConf) >>
  /\ pc' = "running"
  /\ UNCHANGED <<env, timer, config, pods, secrets, podEvents, secretEvents, last>>

NextDefault == StartServer \/ PodEvent \/ SecretEvent \/ Compile \/ Return

SpecDefault == InitStarting /\ [][NextDefault]_vars

(***************************************************************************)
(* Claims about the default configuration (checked under SpecDefault)      *)
(***************************************************************************)

\* C15: for every listen port, GetConf of a cache with no pods returns the
\* text of GetDefaultConf for the configuration: the default server on the
\* configured port that returns 444, and nothing else.
C15_EmptyCacheCompilesToDefault ==
  ( Compiled /\ DOMAIN pods = {} ) =>
    /\ conf = GetDefaultConf(config, defaultNginxConf)
    /\ conf.Default
    /\ conf.DefaultServerPort = config.Port
    /\ conf.Servers = <<>>
    /\ conf.Upstreams = <<>>

\* a controller listening on port 90 compiled a cache with no pods and one
\* secret
C15_Witness ==
  /\ Compiled
  /\ DOMAIN pods = {}
  /\ DOMAIN secrets # {}
  /\ config.Port = 90
  /\ conf.DefaultServerPort = 90

(***************************************************************************)
(* Claims about GetRoutes (checked under SpecRoutes)                       *)
(***************************************************************************)

\* the cached pods that are running and carry both routing annotations
RunningAnnotatedPods ==
  { name \in DOMAIN pods :
      /\ pods[name].Pod.Phase = "Running"
      /\ KeyTrafficHostsA \in DOMAIN pods[name].Pod.Annotations
      /\ KeyPublicPathsA \in DOMAIN pods[name].Pod.Annotations }

\* C16: a running pod with h valid hosts and p valid port:path pairs has
\* exactly h*p routes, one for every (host, pair) combination: the incoming
\* host and path are those of the combination, the outgoing IP is the pod IP
\* and the outgoing port is the port of the pair.
C16_RoutesAreHostsTimesPairs ==
  \A name \in RunningAnnotatedPods :
    LET pod == pods[name].Pod
        routes == pods[name].Routes
        hosts == ValidHosts(pod.Annotations[KeyTrafficHostsA])
        pairs == PathPairs(pod.Annotations[KeyPublicPathsA])
        h == Len(hosts)
        p == Len(pairs)
    IN /\ Len(routes) = h * p
       /\ \A i \in 1..h : \A j \in 1..p :
            /\ (i - 1) * p + j \in 1..Len(routes)
            /\ routes[(i - 1) * p + j] =
                 [Incoming |-> [Host |-> hosts[i], Path |-> pairs[j].Path],
                  Outgoing |-> [IP |-> pod.PodIP, Port |-> pairs[j].Port]]

\* a cached running pod with two valid hosts, two valid pairs and four routes
C16_Witness ==
  \E name \in RunningAnnotatedPods :
    /\ Len(ValidHosts(pods[name].Pod.Annotations[KeyTrafficHostsA])) = 2
    /\ Len(PathPairs(pods[name].Pod.Annotations[KeyPublicPathsA])) = 2
    /\ Len(pods[name].Routes) = 4
    /\ pods[name].Pod.PodIP # <<>>

\* the text up to the first ":" of a token and the text after it; a token
\* without ":" has no port and no path
RECURSIVE FirstColon(_, _)
FirstColon(s, i) ==
  IF i > Len(s) THEN 0 ELSE IF s[i] = ":" THEN i ELSE FirstColon(s, i + 1)

\* a path segment made of segment characters and percent-encoded bytes only
RECURSIVE SegmentWellFormed(_)
SegmentWellFormed(seg) ==
  IF seg = <<>> THEN TRUE
  ELSE IF seg[1] \in PathChars THEN SegmentWellFormed(Tail(seg))
  ELSE IF seg[1] = "%" /\ Len(seg) >= 3 /\ IsHex(seg[2]) /\ IsHex(seg[3])
    THEN SegmentWellFormed(SubSeq(seg, 4, Len(seg)))
  ELSE FALSE

\* a PORT:PATH token with an integer port in 1..65535 and no invalid segment
TokenWellFormed(token) ==
  LET c == FirstColon(token, 1)
      port == SubSeq(token, 1, c - 1)
      path == SubSeq(token, c + 1, Len(token))
      segments == Split(path, "/")
  IN /\ c > 0
     /\ Atoi(port).ok
     /\ Atoi(port).val \in 1..65535
     /\ \A i \in 1..Len(segments) : SegmentWellFormed(segments[i])

\* the pod has no hosts annotation, or none of its tokens is a hostname or IP
NoValidHost(pod) ==
  \/ KeyTrafficHostsA \notin DOMAIN pod.Annotations
  \/ LET tokens == Split(pod.Annotations[KeyTrafficHostsA], " ")
     IN \A i \in 1..Len(tokens) : ~(hostnameRegex(tokens[i]) \/ ipRegex(tokens[i]))

\* the pod has a paths annotation and none of its tokens is valid
NoValidPair(pod) ==
  /\ KeyPublicPathsA \in DOMAIN pod.Annotations
  /\ LET tokens == Split(pod.Annotations[KeyPublicPathsA], " ")
     IN \A i \in 1..Len(tokens) : ~TokenWellFormed(tokens[i])

\* C17: a pod that is not running, or has no hosts annotation, or has no valid
\* host token, or has no valid PORT:PATH token, has no routes.
C17_NoRoutesWithoutValidHostAndPair ==
  \A name \in DOMAIN pods :
    LET pod == pods[name].Pod
    IN (pod.Phase # "Running" \/ NoValidHost(pod) \/ NoValidPair(pod))
         => pods[name].Routes = <<>>

\* a rendered target whose IP part is empty: "" or ":port"
TargetWithoutIP(target) == target = <<>> \/ target[1] = ":"

\* the targets conf proxies to: the targets of its locations that name no
\* upstream block, and the members of its upstream blocks
TargetsOfConf ==
  { l.Location.Target : l \in { m \in LocationsOfConf : ~m.Location.IsUpstream } }
    \cup UNION { MembersOf(conf.Upstreams[i]) : i \in 1..Len(conf.Upstreams) }

\* C18: a running pod with no IP assigned has no routes, and no compiled
\* configuration holds a proxy target or upstream member with an empty IP.
C18_NoRoutesAndNoTargetWithoutIP ==
  /\ \A name \in DOMAIN pods :
       (pods[name].Pod.Phase = "Running" /\ pods[name].Pod.PodIP = <<>>)
         => pods[name].Routes = <<>>
  /\ (Compiled /\ ~conf.Default) =>
       \A target \in TargetsOfConf : ~TargetWithoutIP(target)

\* the cached running pods with a hosts annotation and no paths annotation
RunningPodsWithoutPaths ==
  { name \in DOMAIN pods :
      /\ pods[name].Pod.Phase = "Running"
      /\ KeyTrafficHostsA \in DOMAIN pods[name].Pod.Annotations
      /\ KeyPublicPathsA \notin DOMAIN pods[name].Pod.Annotations }

RootRouted(host) ==
  \E route \in CachedRoutes :
    route.Incoming.Host = host /\ route.Incoming.Path = <<"/">>

\* the server block has a location for the path "/" that proxies to a pod or
\* an upstream
HasRootLocation(server) ==
  \E j \in 1..Len(server.Locations) : server.Locations[j].Path = <<"/">>

C20_WitnessRootRouted ==
  /\ Compiled
  /\ ~conf.Default
  /\ \E i \in 1..Len(conf.Servers) :
       /\ ~conf.Servers[i].NeedsDefaultLocation
       /\ Len(conf.Servers[i].Locations) = 2
       /\ RootRouted(conf.Servers[i].ServerName)

(***************************************************************************)
(* Claims about restarts and windows (checked under Spec)                  *)
(***************************************************************************)

\* initController has just returned from a restart
Restarted == last.kind = "restart"

\* the listed secrets that are routing secrets: the configured name and the
\* configured data field
RelevantListed(secretList) ==
  { secretList[i] : i \in { j \in 1..Len(secretList) :
      /\ secretList[j].Name = "routing"
      /\ "api-key" \in DOMAIN secretList[j].Data } }

\* C21: a closed watch channel does not end the controller, and when the
\* initialization it triggers returns, the cache holds exactly the relisted
\* pods, each with its own data and routes, and exactly the relisted routing
\* secrets, each under its own namespace.
C21_RestartRebuildsCacheFromRelist ==
  Restarted =>
    /\ pc = "running"
    /\ \A i \in 1..Len(last.podList) :
         \E name \in DOMAIN pods :
           /\ pods[name].Pod = last.podList[i]
           /\ pods[name].Routes = GetRoutes(last.podList[i])
    /\ \A name \in DOMAIN pods :
         \E i \in 1..Len(last.podList) : pods[name].Pod = last.podList[i]
    /\ \A secret \in RelevantListed(last.secretList) :
         /\ secret.Namespace \in DOMAIN secrets
         /\ secrets[secret.Namespace] = secret
    /\ \A namespace \in DOMAIN secrets :
         /\ secrets[namespace] \in RelevantListed(last.secretList)
         /\ secrets[namespace].Namespace = namespace

\* the loop between two restarts, started with the empty cache, with the
\* scheduling of the select: time passes while it waits, and a timer that has
\* run out ends the window; the watches deliver events whenever they like
NextWindow == RecvPodEvent \/ RecvSecretEvent \/ Tick \/ WindowExpired

\* ENABLED WindowExpired, written out: the timer of the select has run out
WindowTimedOut == pc = "running" /\ timer = 0

\* Weak fairness of Tick and of WindowExpired.  Every WindowExpired step ends
\* with a new timer, so WF_vars(WindowExpired) is []<>~ENABLED WindowExpired,
\* which is given here with the enabling condition written out.
SpecWindow ==
  InitEmpty /\ [][NextWindow]_vars /\ WF_vars(Tick) /\ []<>~WindowTimedOut

\* C22: the window is fixed, so events collected in a window are applied
\* after the window timeout even if further events keep arriving: whenever
\* the loop holds collected events, the window is eventually processed.
C22_CollectedEventsAreEventuallyApplied ==
  (pc = "running" /\ Len(podEvents) + Len(secretEvents) > 0)
    ~> (last.kind = "window")

(***************************************************************************)
(* Further claims about UpdatePodCacheForEvents (checked under SpecPods)   *)
(***************************************************************************)

\* C23: a batch that is one Added event for a pod that is not running, and so
\* has no routes, does not report needs_reload.
C23_AddedUnroutablePodNeedsNoReload ==
  ( /\ PodCallReturned
    /\ Len(last.podEvents) = 1
    /\ last.podEvents[1].Type = "ADDED"
    /\ last.podEvents[1].Object.Phase # "Running" )
  => ~last.podRet

(***************************************************************************)
(* Claims about ports (checked under SpecRoutes)                           *)
(***************************************************************************)

\* the numbers the PORT:PATH tokens of the cached pods give as port
TokenPorts ==
  UNION { LET annotation == MapGet(pods[name].Pod.Annotations, KeyPublicPathsA)
              tokens == Split(annotation, " ")
          IN { Atoi(SubSeq(tokens[i], 1, FirstColon(tokens[i], 1) - 1)).val :
                 i \in { j \in 1..Len(tokens) :
                           /\ FirstColon(tokens[j], 1) > 0
                           /\ Atoi(SubSeq(tokens[j], 1,
                                          FirstColon(tokens[j], 1) - 1)).ok } } :
          name \in DOMAIN pods }

\* C24: IsValidPort(p) is true exactly for the integers p with
\* 1 <= p <= 65535, and the port of every route GetRoutes returns is an
\* integer that satisfies it.
C24_PortsOfRoutesAreValidPorts ==
  /\ \A p \in TokenPorts : IsValidPort(p) <=> (1 <= p /\ p <= 65535)
  /\ \A route \in CachedRoutes :
       /\ Atoi(route.Outgoing.Port).ok
       /\ IsValidPort(Atoi(route.Outgoing.Port).val)
       /\ Atoi(route.Outgoing.Port).val \in 1..65535

\* a cached pod whose tokens give the ports 0 and 65535, with the one route
\* of port 65535
C24_Witness ==
  /\ {0, 65535} \subseteq TokenPorts
  /\ \E route \in CachedRoutes : Atoi(route.Outgoing.Port).val = 65535
  /\ Cardinality(CachedRoutes) = 1

(***************************************************************************)
(* SpecConfig: main reads its configuration from the environment           *)
(***************************************************************************)

\* the values a variable of the environment is given: unset first, then
\* values the code accepts and values it turns down
EnvValues ==
  [ v \in EnvVars |->
      CASE v = EnvVarAPIKeyHeader -> { <<>>, <<"X">> }
        [] v = EnvVarAPIKeySecretLocation ->
             { <<>>, <<"a", ":", "b">>, <<"a">>, <<":">>, <<"a", ":">>,
               <<"a", ":", "b", ":", "c">> }
        [] v = EnvVarHostsAnnotation ->
             { <<>>, <<"a">>, <<"%">>, <<"A", "/", "b">>, <<"a", "/", "b">> }
        [] v = EnvVarPathsAnnotation -> { <<>>, <<"b">>, <<"%">> }
        [] v = EnvVarPort ->
             { <<>>, <<"8", "1">>, <<"0">>, <<"1">>, <<"-", "1">>, <<"x">>,
               <<"6", "5", "5", "3", "5">>, <<"6", "5", "5", "3", "6">> }
        [] v = EnvVarRoutableLabelSelector ->
             { <<>>, <<"a", "=", "b">>, <<"%">> } ]

Envs ==
  { (EnvVarAPIKeyHeader :> header) @@ (EnvVarAPIKeySecretLocation :> location)
      @@ (EnvVarHostsAnnotation :> hosts) @@ (EnvVarPathsAnnotation :> paths)
      @@ (EnvVarPort :> port) @@ (EnvVarRoutableLabelSelector :> selector) :
      header \in EnvValues[EnvVarAPIKeyHeader],
      location \in EnvValues[EnvVarAPIKeySecretLocation],
      hosts \in EnvValues[EnvVarHostsAnnotation],
      paths \in EnvValues[EnvVarPathsAnnotation],
      port \in EnvValues[EnvVarPort],
      selector \in EnvValues[EnvVarRoutableLabelSelector] }

\* main before ConfigFromEnv: any environment, nothing read yet
InitEnv ==
  /\ env \in Envs
  /\ config = NilConfig
  /\ defaultNginxConf = <<>>
  /\ pods = EmptyMap
  /\ secrets = EmptyMap
  /\ conf = RenderDefault(DefaultConfig)
  /\ podEvents = <<>>
  /\ secretEvents = <<>>
  /\ pc = "init"
  /\ last = NoLast
  /\ timer = WindowSeconds

\* config, err := router.ConfigFromEnv(); log.Fatalf when err != nil
ReadConfig ==
  LET r == ConfigFromEnv(env)
  IN /\ pc = "init"
     /\ config' = r.config
     /\ pc' = IF r.err = "nil" THEN "starting" ELSE "fatal"
     /\ last' = [NoLast EXCEPT !.kind = r.err]
     /\ UNCHANGED <<env, timer, defaultNginxConf, pods, secrets, conf,
                    podEvents, secretEvents>>

NextConfig == ReadConfig \/ StartServer

SpecConfig == InitEnv /\ [][NextConfig]_vars

(***************************************************************************)
(* Claims about the configuration (checked under SpecConfig)               *)
(***************************************************************************)

\* ConfigFromEnv has returned
ConfigRead == pc # "init"

\* every field of the configuration has a value
FullyPopulated(c) ==
  /\ ~c.isNil
  /\ c.APIKeyHeader # <<>>
  /\ c.APIKeySecret # <<>>
  /\ c.APIKeySecretDataField # <<>>
  /\ c.HostsAnnotation # <<>>
  /\ c.PathsAnnotation # <<>>
  /\ c.Port \in 1..65535
  /\ c.RoutableLabelSelector # <<>>

\* a secret location of the form name:field: one ":" between two texts
IsNameAndField(location) ==
  LET parts == Split(location, ":")
  IN Len(parts) = 2 /\ parts[1] # <<>> /\ parts[2] # <<>>

\* the environment holds a value the configuration must not be built from
InvalidEnv ==
  \/ env[EnvVarAPIKeySecretLocation] # <<>>
       /\ ~IsNameAndField(env[EnvVarAPIKeySecretLocation])
  \/ env[EnvVarHostsAnnotation] # <<>>
       /\ ~IsQualifiedName(env[EnvVarHostsAnnotation])
  \/ env[EnvVarPathsAnnotation] # <<>>
       /\ ~IsQualifiedName(env[EnvVarPathsAnnotation])
  \/ env[EnvVarPort] # <<>>
       /\ ~(Atoi(env[EnvVarPort]).ok /\ Atoi(env[EnvVarPort]).val \in 1..65535)
  \/ env[EnvVarRoutableLabelSelector] # <<>>
       /\ ~ParseOK(env[EnvVarRoutableLabelSelector])

\* C25: ConfigFromEnv returns a fully populated configuration and no error,
\* or no configuration and an error; every invalid value gives the error,
\* and with no variable set the configuration is the documented defaults.
C25_ConfigIsFullyPopulatedOrError ==
  ConfigRead =>
    /\ \/ last.kind = "nil" /\ FullyPopulated(config)
       \/ last.kind # "nil" /\ config = NilConfig /\ pc = "fatal"
    /\ InvalidEnv => last.kind # "nil"
    /\ env = NoEnv =>
         /\ config.APIKeyHeader = DefaultAPIKeyHeader
         /\ config.APIKeySecret = DefaultAPIKeySecret
         /\ config.APIKeySecretDataField = DefaultAPIKeySecretDataField
         /\ config.HostsAnnotation = DefaultHostsAnnotation
         /\ config.PathsAnnotation = DefaultPathsAnnotation
         /\ config.Port = 80
         /\ config.RoutableLabelSelector = DefaultRoutableLabelSelector

\* C26: a batch that is one Modified event for a pod that carries the
\* routable label and has no cache entry does not fail: it creates the entry
\* with the pod and its routes and reports needs_reload.
C26_ModifiedOfUnknownPodCreatesEntry ==
  ( /\ last.podCalled
    /\ Len(last.podEvents) = 1
    /\ last.podEvents[1].Type = "MODIFIED"
    /\ HasRoutableLabel(last.podEvents[1].Object)
    /\ last.podEvents[1].Object.Name \notin DOMAIN last.podsBefore )
  => /\ ~last.panicked
     /\ pc = "running"
     /\ last.podRet
     /\ last.podEvents[1].Object.Name \in DOMAIN pods
     /\ pods[last.podEvents[1].Object.Name].Pod = last.podEvents[1].Object

(***************************************************************************)
(* Further claims about restarts (checked under Spec)                      *)
(***************************************************************************)

\* C27: the events collected before a watch channel closed are not applied
\* to the cache the restart builds: a window that ends after a restart without
\* any event received from the new watches leaves the cache as the relist
\* built it, so no older event re-inserts or removes a pod or a secret.
C27_RestartDropsCollectedEvents ==
  [][(Restarted /\ last'.kind = "window")
       => (pods' = pods /\ secrets' = secrets /\ pc' = "running")]_vars

(***************************************************************************)
(* Claims about the contents of the caches                                 *)
(***************************************************************************)

\* whether the pod is running, carries the routable label and has a route
Qualifies(entry) ==
  /\ entry.Pod.Phase = "Running"
  /\ KeyMicroserviceL \in DOMAIN entry.Pod.Labels
  /\ entry.Pod.Labels[KeyMicroserviceL] = "true"
  /\ entry.Routes # <<>>

\* C28: in every reachable state the pod cache contains only pods that
\* qualify as routable: running, carrying the routable label and yielding at
\* least one route (checked under SpecPods).
C28_CachedPodsQualify ==
  \A name \in DOMAIN pods : Qualifies(pods[name])

\* C29: in every reachable state each entry of the secret cache belongs to a
\* secret that has the configured name and contains the configured data
\* field, after the bulk load and after any Added and Modified secret events
\* (checked under SpecSecrets, whose events are all of secrets with the
\* configured name, the only ones main hands to the update function).
C29_CachedSecretsHaveNameAndField ==
  \A namespace \in DOMAIN secrets :
    /\ secrets[namespace].Name = APIKeySecret
    /\ APIKeySecretDataField \in DOMAIN secrets[namespace].Data

(***************************************************************************)
(* Further claims about upstream blocks (checked under SpecUpstreams)      *)
(***************************************************************************)

\* whether the servers are listed in ascending order of their pod's name
AscendingByPodName(servers) ==
  \A j \in 1..Len(servers) : \A k \in (j + 1)..Len(servers) :
    ~StrLess(servers[k].Pod.Name, servers[j].Pod.Name)

\* C30: in every configuration GetConf produces, the members of every
\* upstream block are listed in ascending order of the originating pod's
\* name, for two or more members and every order of visiting the pods.
C30_UpstreamMembersAscendByPodName ==
  Compiled =>
    \A i \in 1..Len(conf.Upstreams) :
      AscendingByPodName(conf.Upstreams[i].Servers)

(***************************************************************************)
(* Claims about the order of events (checked under SpecPods)               *)
(***************************************************************************)

\* the last event of the batch for the pod name
LastEventFor(events, name) ==
  LET is == { i \in 1..Len(events) : events[i].Object.Name = name }
  IN events[CHOOSE i \in is : \A j \in is : j <= i]

\* whether the cache entry of the name is what the event alone leaves: the
\* pod of an Added event or of a Modified event that still carries the
\* routable label, and no entry otherwise
EntryAsLeftBy(cache, event) ==
  LET name == event.Object.Name
      labelled == /\ KeyMicroserviceL \in DOMAIN event.Object.Labels
                  /\ event.Object.Labels[KeyMicroserviceL] = "true"
  IN IF event.Type = "ADDED" \/ (event.Type = "MODIFIED" /\ labelled)
       THEN name \in DOMAIN cache /\ cache[name].Pod = event.Object
       ELSE name \notin DOMAIN cache

\* C31: the events of a batch are folded into the cache in the order they
\* were received, so after the batch the cache entry (or the absence of an
\* entry) of a pod is determined by the last event for that pod in the batch.
C31_LastEventDeterminesEntry ==
  last.kind = "pods" =>
    \A i \in 1..Len(last.podEvents) :
      EntryAsLeftBy(pods, LastEventFor(last.podEvents, last.podEvents[i].Object.Name))

(***************************************************************************)
(* Claims about locations and upstream blocks (checked under               *)
(* SpecUpstreams)                                                          *)
(***************************************************************************)

ReloadOutcomes ==
  UNION { { [cache |-> InitController(podList, secretList), conf |-> c,
               podList |-> podList, secretList |-> secretList] :
              c \in GetConfSet(DefaultConfig, << RenderDefault(DefaultConfig) >>,
                                InitController(podList, secretList)) } :
          podList \in {<<>>, << P1 >>}, secretList \in {<<>>, << SA >>} }

\* a watch channel was closed; initController reloads nginx with exitOnFailure
RestartAndReload ==
  \E outcome \in ReloadOutcomes : \E run \in ReloadRuns : RestartWith(outcome, run)

\* the window ends; main reloads nginx without exitOnFailure
WindowExpiredAndReload == \E run \in ReloadRuns : WindowExpiredWith(run)

NextReload == RecvPodEvent \/ Tick \/ RestartAndReload \/ WindowExpiredAndReload

SpecReload == InitEmpty /\ [][NextReload]_vars

(***************************************************************************)
(* Claims about failures of the reload (checked under SpecReload)          *)
(***************************************************************************)

ShapeHostTokens == { <<"a">>, <<"-">> }

\* PORT:PATH tokens: the root path, a path of one segment, a port that is no
\* integer, a trailing slash, an empty inner segment, a path of two segments
\* and a path with a further ":"
ShapePathTokens ==
  { <<"8", "0", ":", "/">>,
    <<"8", "1", ":", "/", "x">>,
    <<"x", ":", "/">>,
    <<"8", "0", ":", "/", "x", "/">>,
    <<"8", "0", ":", "/", "/", "x">>,
    <<"8", "0", ":", "/", "x", "/", "y">>,
    <<"8", "0", ":", "/", "x", ":", "y">> }

\* the running pods handed to GetRoutes
TokenPods ==
  { Pod(NameP1, "A", "Running", IP1, MicroserviceTrue, h @@ p) :
      h \in AnnotationsOver(KeyTrafficHostsA, ShapeHostTokens),
      p \in AnnotationsOver(KeyPublicPathsA, ShapePathTokens) }

\* the pod is added to the empty cache, which calls GetRoutes for it
AddTokenPod ==
  /\ pc = "running"
  /\ last.kind = "none"
  /\ pods = EmptyMap
  /\ \E pod \in TokenPods :
       pods' = UpdatePodCacheForEvents(pods, << Event("ADDED", pod) >>).cache
  /\ UNCHANGED <<env, timer, config, defaultNginxConf, secrets, conf, podEvents,
                 secretEvents, pc, last>>

NextTokens == AddTokenPod \/ Compile

SpecTokens == InitEmpty /\ [][NextTokens]_vars

(***************************************************************************)
(* Claims about the validation of single tokens (checked under SpecTokens) *)
(***************************************************************************)

\* the routes GetRoutes returns for a running pod whose annotations hold the
\* one host token and the one PORT:PATH token
RoutesOfTokens(host, publicPath) ==
  GetRoutes(Pod(NameP1, "A", "Running", IP1, MicroserviceTrue,
                (KeyTrafficHostsA :> host) @@ (KeyPublicPathsA :> publicPath)))

\* the tokens of the annotation that yield a route when they stand alone
HostsValidAlone(annotation) ==
  SelectSeq(Split(annotation, " "),
            LAMBDA h : RoutesOfTokens(h, <<"8", "0", ":", "/">>) # <<>>)

PairsValidAlone(annotation) ==
  SelectSeq(Split(annotation, " "), LAMBDA t : RoutesOfTokens(<<"a">>, t) # <<>>)

\* C35: validation in GetRoutes is per item: an invalid host token or an
\* invalid PORT:PATH token is dropped without affecting the other tokens, so
\* the routes are the cross product of the hosts and of the pairs that are
\* valid on their own.
C35_InvalidTokensAreDroppedAlone ==
  \A name \in RunningAnnotatedPods :
    LET pod == pods[name].Pod
        routes == pods[name].Routes
        hosts == HostsValidAlone(pod.Annotations[KeyTrafficHostsA])
        tokens == PairsValidAlone(pod.Annotations[KeyPublicPathsA])
        h == Len(hosts)
        p == Len(tokens)
    IN /\ Len(routes) = h * p
       /\ \A i \in 1..h : \A j \in 1..p :
            LET alone == RoutesOfTokens(<<"a">>, tokens[j])[1]
            IN /\ (i - 1) * p + j \in 1..Len(routes)
               /\ routes[(i - 1) * p + j] =
                    [Incoming |-> [Host |-> hosts[i], Path |-> alone.Incoming.Path],
                     Outgoing |-> [IP |-> pod.PodIP, Port |-> alone.Outgoing.Port]]

\* a cached running pod with an invalid host before a valid one, an invalid
\* PORT:PATH token before a valid one, and the one route of the valid tokens
C35_Witness ==
  \E name \in RunningAnnotatedPods :
    /\ pods[name].Pod.Annotations[KeyTrafficHostsA] = <<"-", " ", "a">>
    /\ pods[name].Pod.Annotations[KeyPublicPathsA]
         = <<"x", ":", "/", " ", "8", "1", ":", "/", "x">>
    /\ Len(pods[name].Routes) = 1

\* whether the segments are the ones of a valid path: an empty segment only
\* in the first and the last place, every other segment made of segment
\* characters and percent-encoded bytes
SegmentsValid(segments) ==
  \A i \in 1..Len(segments) :
    /\ SegmentWellFormed(segments[i])
    /\ segments[i] = <<>> => (i = 1 \/ i = Len(segments))

\* the token split on its first ":" into port and path, when the port is an
\* integer in 1..65535 and the path is valid
PairOfFirstColon(token) ==
  LET c == FirstColon(token, 1)
      port == SubSeq(token, 1, c - 1)
      path == SubSeq(token, c + 1, Len(token))
  IN IF /\ c > 0
        /\ Atoi(port).ok
        /\ Atoi(port).val \in 1..65535
        /\ path # <<>>
        /\ SegmentsValid(Split(path, "/"))
       THEN << [Path |-> path, Port |-> port] >>
       ELSE <<>>

\* whether a route of the pod has the path and the port of the pair
RoutedPair(routes, pair) ==
  \E r \in 1..Len(routes) :
    /\ routes[r].Incoming.Path = pair.Path
    /\ routes[r].Outgoing.Port = pair.Port

\* C36: each token of the paths annotation is split on its first ":" into
\* port and path, so a token whose path contains a further ":" and is
\* otherwise valid yields a pair with that full path.
C36_PathMayContainColon ==
  \A name \in RunningAnnotatedPods :
    LET pod == pods[name].Pod
        tokens == Split(pod.Annotations[KeyPublicPathsA], " ")
    IN ~NoValidHost(pod) =>
         \A i \in 1..Len(tokens) :
           LET pair == PairOfFirstColon(tokens[i])
           IN (pair # <<>> /\ FirstColon(pair[1].Path, 1) > 0)
                => RoutedPair(pods[name].Routes, pair[1])

\* C37: the validation of a path skips an empty first segment and an empty
\* last segment and validates every other segment: a token with a valid port
\* yields its pair when the path has a leading and/or trailing slash and valid
\* inner segments, and yields none when the path has an empty inner segment.
C37_OnlyFirstAndLastSegmentMayBeEmpty ==
  \A name \in RunningAnnotatedPods :
    LET pod == pods[name].Pod
        tokens == Split(pod.Annotations[KeyPublicPathsA], " ")
    IN ~NoValidHost(pod) =>
         \A i \in 1..Len(tokens) :
           LET c == FirstColon(tokens[i], 1)
               port == SubSeq(tokens[i], 1, c - 1)
               path == SubSeq(tokens[i], c + 1, Len(tokens[i]))
           IN (c > 0 /\ Atoi(port).ok /\ Atoi(port).val \in 1..65535
                 /\ path # <<>> /\ FirstColon(path, 1) = 0)
                => (RoutedPair(pods[name].Routes, [Path |-> path, Port |-> port])
                      <=> SegmentsValid(Split(path, "/")))

(***************************************************************************)
(* Further claims about shared upstream blocks (checked under              *)
(* SpecUpstreams)                                                          *)
(***************************************************************************)

\* C38: two routes with different (host, path) pairs never share an upstream
\* block: no upstream is proxied to by locations of two host+path pairs, and
\* the upstream a location proxies to lists only targets of pods that serve
\* the host+path of that location.
C38_UpstreamBelongsToOneHostAndPath ==
  Compiled =>
    \A l \in LocationsOfConf :
      l.Location.IsUpstream =>
        /\ \A i \in UpstreamsNamed(l.Location.Target) :
             MembersOf(conf.Upstreams[i])
               \subseteq TargetsRouted(l.Host, l.Location.Path)
        /\ \A m \in LocationsOfConf :
             (m.Location.IsUpstream /\ m.Location.Target = l.Location.Target)
               => (m.Host = l.Host /\ m.Location.Path = l.Location.Path)

(***************************************************************************)
(* SpecNamespaces: the pod cache over pods of one name in two namespaces   *)
(***************************************************************************)

NamespacePodEvents ==
  { Event(t, o) : t \in {"ADDED", "MODIFIED", "DELETED"}, o \in {P1, P1OfB} }

\* what initController returns for the lists over p1 of A, p1 of B and p2
NamespaceOutcomes ==
  UNION { { [cache |-> InitController(podList, <<>>), conf |-> c,
               podList |-> podList, secretList |-> <<>>] :
              c \in GetConfSet(DefaultConfig, << RenderDefault(DefaultConfig) >>,
                                InitController(podList, <<>>)) } :
          podList \in Listings({P1, P1OfB, P2}, MaxList) }

\* a batch of events of the two pods is applied to the cache
ApplyNamespacePodEvents ==
  \E events \in SeqsUpTo(NamespacePodEvents, MaxBatch) :
    LET r == UpdatePodCacheForEvents(pods, events)
    IN /\ pc = "running"
       /\ pods' = r.cache
       /\ pc' = IF r.panicked THEN "panicked" ELSE "running"
       /\ last' = [NoLast EXCEPT !.kind = "pods",
                                 !.podsBefore = pods,
                                 !.podEvents = events,
                                 !.podCalled = TRUE,
                                 !.podRet = r.needsRestart,
                                 !.panicked = r.panicked]
       /\ UNCHANGED <<env, timer, config, defaultNginxConf, secrets, conf,
                      podEvents, secretEvents>>

\* the bulk load of initController
LoadNamespacePods == \E outcome \in NamespaceOutcomes : RestartWith(outcome, "ok")

NextNamespaces == ApplyNamespacePodEvents \/ LoadNamespacePods

SpecNamespaces == InitEmpty /\ [][NextNamespaces]_vars

(***************************************************************************)
(* Claims about pods of one name (checked under SpecNamespaces)            *)
(***************************************************************************)

\* whether the two pods are the same object of the cluster
SamePod(x, y) == x.Namespace = y.Namespace /\ x.Name = y.Name

\* C39: bulk load and events for a pod in one namespace never overwrite,
\* change or remove the cache entry of a different pod that has the same name
\* in another namespace, and every listed routable pod is in the cache.
C39_SameNameInOtherNamespaceIsKept ==
  /\ last.kind = "pods" =>
       \A name \in DOMAIN last.podsBefore :
         (\A i \in 1..Len(last.podEvents) :
            ~SamePod(last.podEvents[i].Object, last.podsBefore[name].Pod))
           => \E other \in DOMAIN pods : pods[other] = last.podsBefore[name]
  /\ Restarted =>
       \A i \in 1..Len(last.podList) :
         \E name \in DOMAIN pods : pods[name].Pod = last.podList[i]
====
